---- MODULE Spec2Model ----
(***************************************************************************)
(* Verification model of the task-management front end: the status and     *)
(* priority utilities (utils/status), the useTaskMutations hook with the   *)
(* query cache it reads and writes, the optimistic project creation of     *)
(* SimpleProjectList, the dashboard realtime handlers, and the overlay     *)
(* list of EnhancedTaskList.                                               *)
(*                                                                         *)
(* The module holds several specifications over one set of variables:      *)
(*   SpecUtil  - the pure utilities applied to bounded inputs              *)
(*   SpecHook  - query cache, useTaskMutations, project create, realtime   *)
(*   SpecEnh   - EnhancedTaskList and its optimistic overlay list          *)
(***************************************************************************)
EXTENDS Naturals, Integers, Sequences, FiniteSets, TLC

VARIABLES
  \* ---- SpecUtil: arguments and result of the last utility call
  fromStatus, toStatus, priority, ret,
  \* ---- SpecHook
  page,          \* the route that is mounted
  srvTasks,      \* backend: the set of task entities
  srvProjects,   \* backend: the set of project entities
  cache,         \* query cache: query key -> cached value
  fetch,         \* per query key: state of the query function call in flight
  muts,          \* mutations whose network call has not settled
  events,        \* realtime events broadcast and not yet handled
  nMut,          \* number of mutations dispatched so far
  nExt,          \* number of changes made by other clients so far
  last,          \* the operation that ran last and what it observed
  \* ---- SpecEnh: EnhancedTaskList
  role,              \* user.role of the signed-in user
  optimisticUpdates, \* the overlay list (component state)
  taskToDelete,      \* id of the task in the delete confirmation, 0 = none
  now,               \* Date.now(), in seconds
  sweepDue,          \* the cleanup interval has elapsed and its callback is queued
  \* ---- SpecApi: the API client and the auth context
  token,             \* localStorage 'auth_token', 0 = absent
  location,          \* window.location: the path of the document
  user,              \* AuthProvider state user, 0 = null
  isLoading,         \* AuthProvider state isLoading
  requests,          \* requests of the API client whose caller has not resumed
  nReq,              \* number of requests issued so far
  echoAuth,          \* auth.headers.Authorization of the Echo instance
  \* ---- views: the clock's time zone and the task a utility is applied to
  dueDate,           \* task.due_date: a calendar day relative to today, or none
  timezone,          \* offset of local time from UTC, in hours
  modal              \* SimpleTaskModal: props, form state, errors, calls issued

utilVars == <<fromStatus, toStatus, priority, ret>>

hookVars == <<page, srvTasks, srvProjects, cache, fetch, muts, events, nMut, nExt, last>>

enhVars == <<role, optimisticUpdates, taskToDelete, now, sweepDue>>

apiVars == <<token, location, user, isLoading, requests, nReq, echoAuth>>

uiVars == <<dueDate, timezone, modal>>

vars == <<fromStatus, toStatus, priority, ret,
          page, srvTasks, srvProjects, cache, fetch, muts, events, nMut, nExt, last,
          role, optimisticUpdates, taskToDelete, now, sweepDue,
          token, location, user, isLoading, requests, nReq, echoAuth,
          dueDate, timezone, modal>>

(***************************************************************************)
(* utils/status: status utilities                                          *)
(***************************************************************************)

\* type TaskStatus
Statuses == {"pending", "in_progress", "completed", "cancelled"}

\* A value that is not a TaskStatus but can reach the functions at run time
\* (the dropdown value is cast with `as`); it takes the default branch.
StatusInputs == Statuses \cup {"archived"}

Includes(list, x) == \E i \in 1..Len(list) : list[i] = x

getValidStatusTransitions_NoReopen(currentStatus) ==
  CASE currentStatus = "pending"     -> <<"in_progress", "completed", "cancelled">>
    [] currentStatus = "in_progress" -> <<"completed", "cancelled">>
    [] currentStatus = "completed"   -> <<>>
    [] currentStatus = "cancelled"   -> <<"pending">>
    [] OTHER                         -> <<>>

getValidStatusTransitions(currentStatus) ==
  CASE currentStatus = "pending"     -> <<"in_progress", "completed", "cancelled">>
    [] currentStatus = "in_progress" -> <<"completed", "cancelled">>
    [] currentStatus = "completed"   -> <<"in_progress">>
    [] currentStatus = "cancelled"   -> <<"pending">>
    [] OTHER                         -> <<>>

getAllowedStatusOptions(currentStatus) ==
  <<currentStatus>> \o getValidStatusTransitions(currentStatus)

isValidStatusTransition(from, to) ==
  IF from = to THEN TRUE
  ELSE Includes(getValidStatusTransitions(from), to)

(***************************************************************************)
(* utils/status: priority utilities                                        *)
(***************************************************************************)

Priorities == {"low", "medium", "high", "urgent"}

\* A run-time priority value: a string, a number, or undefined.
StrP(s) == [t |-> "string", s |-> s, n |-> 0]
NumP(n) == [t |-> "number", s |-> "", n |-> n]
UndefP  == [t |-> "undefined", s |-> "", n |-> 0]

MaxLegacyPriority == 5

PriorityInputs ==
  {StrP(s) : s \in Priorities \cup {"critical", ""}}
    \cup {NumP(n) : n \in 0..MaxLegacyPriority} \cup {UndefP}

getPriorityWeight(p) ==
  CASE p = "urgent" -> 4
    [] p = "high"   -> 3
    [] p = "medium" -> 2
    [] p = "low"    -> 1
    [] OTHER        -> 0

normalizePriority(p) ==
  IF p.t = "string" /\ Includes(<<"low", "medium", "high", "urgent">>, p.s)
  THEN p.s
  ELSE IF p.t = "number"
       THEN CASE p.n = 1 -> "urgent"
              [] p.n = 2 -> "high"
              [] p.n = 3 -> "medium"
              [] p.n = 4 -> "low"
              [] OTHER   -> "medium"
       ELSE "medium"

(***************************************************************************)
(* Entities and the backend                                                *)
(***************************************************************************)

\* Number of tasks the backend holds initially; their ids are 1..NumTasks.
NumTasks == 2

TaskIds == 1..NumTasks

\* The id of a task that another client creates.
NewTaskId == NumTasks + 1

\* User ids; assigned_to = 0 stands for "unassigned".
NumUsers == 1

Users == 1..NumUsers

\* The id of the signed-in user.
UserId == 1

\* Task.user_id: task 1 belongs to the signed-in user, the others do not.
OwnerOf(i) == IF i = 1 THEN UserId ELSE 0

\* A Task entity, reduced to the fields the mutations and the views use.
\* completed_at is 0 (unset) or 1 (a timestamp).
Task(i, s, a, c) ==
  [id |-> i, status |-> s, assigned_to |-> a, completed_at |-> c, user_id |-> OwnerOf(i)]

\* { ...task, ...newData }: shallow overlay of a partial entity.
Merge(task, newData) ==
  [f \in (DOMAIN task) \cup (DOMAIN newData) |->
     IF f \in DOMAIN newData THEN newData[f] ELSE task[f]]

\* A Project entity, reduced to its id and the _optimistic tag.
Project(i, o) == [id |-> i, name |-> "project", _optimistic |-> o]

\* Date.now() as a temporary project id: distinct from every backend id.
TempProjectId(n) == 1000 + n

\* The backend lists entities in one fixed order (here: by id).
SortById(S) ==
  CHOOSE q \in [1..Cardinality(S) -> S] :
    \A i, j \in 1..Cardinality(S) : i < j => q[i].id < q[j].id

(***************************************************************************)
(* The query cache                                                         *)
(***************************************************************************)

\* Cached values: undefined, a PaginatedResponse {data: [...]}, or an array.
Undefined == [shape |-> "undefined", data |-> <<>>]
Paginated(d) == [shape |-> "page", data |-> d]
Arr(d) == [shape |-> "array", data |-> d]

\* Query keys.
HookKey == "tasks"                 \* ['tasks']              useTaskMutations
ListKey == "tasks/all"             \* ['tasks', statusFilter] SimpleTaskList
DashKey == "tasks/limit"           \* ['tasks', {limit: 100}] Dashboard
ProjKey == "projects/all"          \* ['projects', statusFilter] SimpleProjectList
EnhKey == "tasks/filters"          \* ['tasks', filters, sort, role] EnhancedTaskList
ProjRootKey == "projects"          \* ['projects']           Dashboard

Keys == {HookKey, ListKey, DashKey, ProjKey, EnhKey, ProjRootKey}

\* Keys matched by the filter { queryKey: ['tasks'] } (prefix match).
TaskKeys == {HookKey, ListKey, DashKey, EnhKey}

\* Keys matched by the filter { queryKey: ['projects'] }.
ProjectKeys == {ProjKey, ProjRootKey}

\* The routes: SimpleTaskList, Dashboard, SimpleProjectList.
Pages == {"tasks", "dashboard", "projects"}

\* The key that the mounted route's useQuery observes; nothing observes
\* ['tasks'].
ObservedKey(pg) ==
  CASE pg = "tasks"     -> ListKey
    [] pg = "dashboard" -> DashKey
    [] pg = "projects"  -> ProjKey
    [] pg = "enhanced"  -> EnhKey
    [] OTHER            -> "none"

\* All the keys that the mounted route's queries observe: the dashboard and
\* EnhancedTaskList have a projects query next to their tasks query, both
\* under ['projects'].
ObservedKeys(pg) ==
  IF pg \in {"dashboard", "enhanced"} THEN {ObservedKey(pg), ProjRootKey}
  ELSE {ObservedKey(pg)}

\* The query function of each observed key, applied to the backend state.
QueryFn(k, tasks, projects) ==
  CASE k = ListKey -> Paginated(SortById(tasks))
    [] k = DashKey -> Arr(SortById(tasks))
    [] k = ProjKey -> Paginated(SortById(projects))
    [] k = EnhKey  -> Paginated(SortById(tasks))
    [] k = ProjRootKey -> Arr(SortById(projects))
    [] OTHER       -> Undefined

\* queryClient.setQueryData(key, value): an undefined value writes nothing.
SetQueryData(c, k, v) ==
  IF v.shape = "undefined" THEN c ELSE [c EXCEPT ![k] = v]

Idle == [st |-> "idle", resp |-> Undefined]
Pending == [st |-> "pending", resp |-> Undefined]

\* queryClient.invalidateQueries({queryKey}): every matching query that is
\* observed drops the call in flight and refetches.
InvalidateQueries(f, ks) ==
  [k \in Keys |-> IF k \in ks /\ k \in ObservedKeys(page) THEN Pending ELSE f[k]]

\* queryClient.cancelQueries({queryKey}): calls in flight are dropped.
CancelQueries(f, ks) ==
  [k \in Keys |-> IF k \in ks THEN Idle ELSE f[k]]

(***************************************************************************)
(* useTaskMutations                                                        *)
(***************************************************************************)

\* options.optimistic, default true; SimpleTaskList does not override it.
optimistic == TRUE

\* Bound on the number of mutations dispatched in one behaviour.
MaxMutations == 2

\* Bound on the number of changes other clients make in one behaviour.
MaxExternal == 1

\* tasksData?.data?.find(task => task.id === id)
HasData(c) == c.shape = "page"

FindTask(c, id) == {c.data[i] : i \in {j \in 1..Len(c.data) : c.data[j].id = id}}

\* The updater that applyOptimisticUpdate passes to setQueryData.
OptimisticUpdater(oldData, taskId, newData) ==
  IF ~HasData(oldData) THEN oldData
  ELSE [oldData EXCEPT !.data =
          [i \in 1..Len(oldData.data) |->
             IF oldData.data[i].id = taskId
             THEN Merge(oldData.data[i], newData)
             ELSE oldData.data[i]]]

applyOptimisticUpdate(c, taskId, newData) ==
  IF ~optimistic THEN c
  ELSE SetQueryData(c, HookKey, OptimisticUpdater(c[HookKey], taskId, newData))

\* data.filter(task => task.id !== id)
FilterOut(data, id) == SelectSeq(data, LAMBDA t : t.id # id)

\* The status of task id as the list view shows it ("none" when not listed).
ShownStatus(c, id) ==
  IF FindTask(c, id) = {} THEN "none"
  ELSE (CHOOSE t \in FindTask(c, id) : TRUE).status

NoPatch == [id |-> 0]

NoLast ==
  [op |-> "none", kind |-> "none", id |-> 0, from |-> "none", shown |-> "none", to |-> "none",
   patch |-> NoPatch, network |-> FALSE, onError |-> FALSE, key |-> "none",
   previousData |-> Undefined, before |-> Undefined, invalidated |-> FALSE]

\* The retry option of the useMutation instances: none of them sets it, and
\* a mutation's default is no retry.
Retry_Once(kind) == 1

Retry(kind) == 0

\* The mutation after its mutationFn has been called once more.
Reissued(m) == [m EXCEPT !.calls = @ + 1]

\* A mutation in flight: the variables of mutate(), the context returned by
\* onMutate, whether the backend has already applied the request, and the
\* number of times its mutationFn has issued the request.
Mutation(n, kind, id, patch, key, previousData) ==
  [mid |-> n, kind |-> kind, id |-> id, patch |-> patch, key |-> key,
   previousData |-> previousData, applied |-> FALSE, calls |-> 1]

HookIdle ==
  /\ page = "none"
  /\ srvTasks = {}
  /\ srvProjects = {}
  /\ cache = [k \in Keys |-> Undefined]
  /\ fetch = [k \in Keys |-> Idle]
  /\ muts = {}
  /\ events = {}
  /\ nMut = 0
  /\ nExt = 0
  /\ last = NoLast

\* EnhancedTaskList is not mounted.
EnhIdle ==
  /\ role = "none"
  /\ optimisticUpdates = <<>>
  /\ taskToDelete = 0
  /\ now = 0
  /\ sweepDue = FALSE

\* task.due_date is absent
NoDueDate == [has |-> FALSE, day |-> 0]

\* More run-time values: null, the string 'YYYY-MM-DD' of the day that
\* lies d days after today, and the decimal string of a number.
NullP == [t |-> "null", s |-> "", n |-> 0]
DateP(d) == [t |-> "date", s |-> "", n |-> d]
NumStr(n) == [t |-> "string", s |-> "digits", n |-> n]

\* The initial formData of SimpleTaskModal.
EmptyForm ==
  [name |-> StrP(""), description |-> StrP(""), status |-> StrP("pending"),
   priority |-> StrP("medium"), project_id |-> NullP, assigned_to |-> NullP,
   due_date |-> StrP(""), estimated_time |-> NullP]

\* errors = {}
NoErrors == [name |-> "", due_date |-> "", general |-> ""]

\* SimpleTaskModal is not rendered.
ModalClosed ==
  [mode |-> "closed", task |-> NullP, formData |-> EmptyForm, errors |-> NoErrors,
   calls |-> <<>>, pending |-> 0, changes |-> 0, submits |-> 0]

\* No utility is applied to a task; the clock is in UTC; no modal is open.
UiIdle ==
  /\ dueDate = NoDueDate
  /\ timezone = 0
  /\ modal = ModalClosed

\* The API client at rest in a signed-in session.
ApiIdle ==
  /\ token = 1
  /\ location = "/app"
  /\ user = UserId
  /\ isLoading = FALSE
  /\ requests = {}
  /\ nReq = 0
  /\ echoAuth = [present |-> TRUE, bearer |-> token]

(***************************************************************************)
(* SpecUtil: the utilities applied to every bounded input                  *)
(***************************************************************************)

NoRet == [fn |-> "none", bool |-> FALSE, list |-> <<>>, num |-> 0, str |-> "", sent |-> UndefP]

UtilIdle ==
  /\ fromStatus = "pending"
  /\ toStatus = "pending"
  /\ priority = UndefP
  /\ ret = NoRet

UtilInit ==
  /\ fromStatus \in StatusInputs
  /\ toStatus \in StatusInputs
  /\ priority \in PriorityInputs
  /\ ret = NoRet
  /\ HookIdle
  /\ EnhIdle
  /\ ApiIdle
  /\ UiIdle

CallIsValidStatusTransition ==
  /\ ret' = [NoRet EXCEPT !.fn = "isValidStatusTransition",
                          !.bool = isValidStatusTransition(fromStatus, toStatus)]
  /\ UNCHANGED <<fromStatus, toStatus, priority>>
  /\ UNCHANGED hookVars
  /\ UNCHANGED enhVars
  /\ UNCHANGED apiVars
  /\ UNCHANGED uiVars

CallGetValidStatusTransitions ==
  /\ ret' = [NoRet EXCEPT !.fn = "getValidStatusTransitions",
                          !.list = getValidStatusTransitions(fromStatus)]
  /\ UNCHANGED <<fromStatus, toStatus, priority>>
  /\ UNCHANGED hookVars
  /\ UNCHANGED enhVars
  /\ UNCHANGED apiVars
  /\ UNCHANGED uiVars

CallGetAllowedStatusOptions ==
  /\ ret' = [NoRet EXCEPT !.fn = "getAllowedStatusOptions",
                          !.list = getAllowedStatusOptions(fromStatus)]
  /\ UNCHANGED <<fromStatus, toStatus, priority>>
  /\ UNCHANGED hookVars
  /\ UNCHANGED enhVars
  /\ UNCHANGED apiVars
  /\ UNCHANGED uiVars

CallNormalizePriority ==
  /\ ret' = [NoRet EXCEPT !.fn = "normalizePriority",
                          !.str = normalizePriority(priority)]
  /\ UNCHANGED <<fromStatus, toStatus, priority>>
  /\ UNCHANGED hookVars
  /\ UNCHANGED enhVars
  /\ UNCHANGED apiVars
  /\ UNCHANGED uiVars

CallGetPriorityWeight ==
  /\ priority.t = "string"
  /\ ret' = [NoRet EXCEPT !.fn = "getPriorityWeight",
                          !.num = getPriorityWeight(priority.s)]
  /\ UNCHANGED <<fromStatus, toStatus, priority>>
  /\ UNCHANGED hookVars
  /\ UNCHANGED enhVars
  /\ UNCHANGED apiVars
  /\ UNCHANGED uiVars

\* task.priority && ...: the value is truthy
Truthy(p) ==
  CASE p.t = "string" -> p.s # ""
    [] p.t = "number" -> p.n # 0
    [] p.t = "date"   -> TRUE
    [] OTHER          -> FALSE

\* The priority of the request body
\* { ...task, ...(task.priority && { priority: normalizePriority(task.priority) }) }
NormalizedTaskPriority(p) == IF Truthy(p) THEN StrP(normalizePriority(p)) ELSE p

\* ApiService.createTask: ret.sent is the priority of the body that is posted
\* (undefined: the body has no priority).
ApiCreateTask ==
  /\ ret' = [NoRet EXCEPT !.fn = "createTask", !.sent = NormalizedTaskPriority(priority)]
  /\ UNCHANGED <<fromStatus, toStatus, priority>>
  /\ UNCHANGED hookVars
  /\ UNCHANGED enhVars
  /\ UNCHANGED apiVars
  /\ UNCHANGED uiVars

\* ApiService.updateTask
ApiUpdateTask ==
  /\ ret' = [NoRet EXCEPT !.fn = "updateTask", !.sent = NormalizedTaskPriority(priority)]
  /\ UNCHANGED <<fromStatus, toStatus, priority>>
  /\ UNCHANGED hookVars
  /\ UNCHANGED enhVars
  /\ UNCHANGED apiVars
  /\ UNCHANGED uiVars

UtilNext ==
  \/ CallIsValidStatusTransition
  \/ CallGetValidStatusTransitions
  \/ CallGetAllowedStatusOptions
  \/ CallNormalizePriority
  \/ CallGetPriorityWeight
  \/ ApiCreateTask
  \/ ApiUpdateTask

SpecUtil == UtilInit /\ [][UtilNext]_vars

(***************************************************************************)
(* SpecHook: the query cache, useTaskMutations, the optimistic project     *)
(* creation of SimpleProjectList and the dashboard realtime handlers       *)
(***************************************************************************)

\* The backend's tasks at start: task 1 is pending, the others are completed.
InitStatus(i) == IF i = 1 THEN "pending" ELSE "completed"

HookInit ==
  /\ UtilIdle
  /\ ApiIdle
  /\ UiIdle
  /\ EnhIdle
  /\ page \in Pages
  /\ srvTasks = {Task(i, InitStatus(i), 0, IF InitStatus(i) = "completed" THEN 1 ELSE 0) : i \in TaskIds}
  /\ srvProjects = {Project(1, FALSE)}
  /\ cache = [k \in Keys |-> Undefined]
  /\ fetch = [k \in Keys |-> IF k = ObservedKey(page) THEN Pending ELSE Idle]
  /\ muts = {}
  /\ events = {}
  /\ nMut = 0
  /\ nExt = 0
  /\ last = NoLast

\* ---- queries -----------------------------------------------------------

\* The backend answers the query function's request.
FetchServe(k) ==
  /\ fetch[k].st = "pending"
  /\ fetch' = [fetch EXCEPT ![k] = [st |-> "served", resp |-> QueryFn(k, srvTasks, srvProjects)]]
  /\ last' = NoLast
  /\ UNCHANGED <<page, srvTasks, srvProjects, cache, muts, events, nMut, nExt>>
  /\ UNCHANGED utilVars
  /\ UNCHANGED enhVars
  /\ UNCHANGED apiVars
  /\ UNCHANGED uiVars

\* The response arrives and becomes the cached value.
FetchReturn(k) ==
  /\ fetch[k].st = "served"
  /\ cache' = [cache EXCEPT ![k] = fetch[k].resp]
  /\ fetch' = [fetch EXCEPT ![k] = Idle]
  /\ last' = NoLast
  /\ UNCHANGED <<page, srvTasks, srvProjects, muts, events, nMut, nExt>>
  /\ UNCHANGED utilVars
  /\ UNCHANGED enhVars
  /\ UNCHANGED apiVars
  /\ UNCHANGED uiVars

\* refetchInterval / refetch on window focus of an observed query.
Refetch(k) ==
  /\ k = ObservedKey(page)
  /\ fetch[k].st = "idle"
  /\ cache[k].shape # "undefined"
  /\ fetch' = [fetch EXCEPT ![k] = Pending]
  /\ last' = NoLast
  /\ UNCHANGED <<page, srvTasks, srvProjects, cache, muts, events, nMut, nExt>>
  /\ UNCHANGED utilVars
  /\ UNCHANGED enhVars
  /\ UNCHANGED apiVars
  /\ UNCHANGED uiVars

\* ---- useTaskMutations: dispatch ------------------------------------------

\* onMutate of completeTask / updateTask / assignTask, then the network call.
OnMutatePatch(kind, id, newData) ==
  /\ page = "tasks"
  /\ nMut < MaxMutations
  /\ nMut' = nMut + 1
  /\ cache' = applyOptimisticUpdate(cache, id, newData)
  /\ muts' = muts \cup {Mutation(nMut + 1, kind, id, newData, HookKey,
                                 IF optimistic THEN cache[HookKey] ELSE Undefined)}
  /\ last' = [NoLast EXCEPT !.op = "dispatch", !.kind = kind, !.id = id,
                            !.from = ShownStatus(cache[ListKey], id),
                            !.to = IF "status" \in DOMAIN newData THEN newData.status ELSE "none",
                            !.network = TRUE, !.key = HookKey,
                            !.previousData = cache[HookKey], !.before = cache[HookKey]]
  /\ UNCHANGED <<page, srvTasks, srvProjects, fetch, events, nExt>>
  /\ UNCHANGED utilVars
  /\ UNCHANGED enhVars
  /\ UNCHANGED apiVars
  /\ UNCHANGED uiVars

\* updateTaskStatus(taskId, status)
UpdateTaskStatus(id, status) ==
  LET tasksData == cache[HookKey]
      currentTask == IF HasData(tasksData) THEN FindTask(tasksData, id) ELSE {}
      invalid == /\ optimistic
                 /\ currentTask # {}
                 /\ \E t \in currentTask : ~isValidStatusTransition(t.status, status)
  IN IF invalid
     THEN \* onMutate throws: no mutationFn, onError runs without a context
          /\ page = "tasks"
          /\ nMut < MaxMutations
          /\ nMut' = nMut + 1
          /\ last' = [NoLast EXCEPT !.op = "dispatch", !.kind = "status", !.id = id,
                                    !.from = ShownStatus(cache[ListKey], id), !.to = status,
                                    !.network = FALSE, !.onError = TRUE, !.key = HookKey,
                                    !.before = cache[HookKey]]
          /\ UNCHANGED <<page, srvTasks, srvProjects, cache, fetch, muts, events, nExt>>
          /\ UNCHANGED utilVars
          /\ UNCHANGED enhVars
          /\ UNCHANGED apiVars
          /\ UNCHANGED uiVars
     ELSE OnMutatePatch("status", id, [status |-> status])

\* completeTask(taskId)
CompleteTask(id) ==
  OnMutatePatch("complete", id, [status |-> "completed", completed_at |-> 1])

\* Partial<Task> values passed to updateTask.
UpdateInputs == {[assigned_to |-> u, status |-> "in_progress"] : u \in Users}

\* updateTask(taskId, updates)
UpdateTask(id, updates) == OnMutatePatch("update", id, updates)

\* assignTask(taskId, userId)
AssignTask(id, userId) == OnMutatePatch("assign", id, [assigned_to |-> userId])

\* deleteTask(taskId)
DeleteTask(id) ==
  LET tasksData == cache[HookKey] IN
  /\ page = "tasks"
  /\ nMut < MaxMutations
  /\ nMut' = nMut + 1
  /\ cache' = IF optimistic /\ HasData(tasksData)
              THEN SetQueryData(cache, HookKey,
                                [tasksData EXCEPT !.data = FilterOut(tasksData.data, id)])
              ELSE cache
  /\ muts' = muts \cup {Mutation(nMut + 1, "delete", id, NoPatch, HookKey,
                                 IF optimistic THEN tasksData ELSE Undefined)}
  /\ last' = [NoLast EXCEPT !.op = "dispatch", !.kind = "delete", !.id = id,
                            !.from = ShownStatus(cache[ListKey], id),
                            !.network = TRUE, !.key = HookKey,
                            !.previousData = tasksData, !.before = tasksData]
  /\ UNCHANGED <<page, srvTasks, srvProjects, fetch, events, nExt>>
  /\ UNCHANGED utilVars
  /\ UNCHANGED enhVars
  /\ UNCHANGED apiVars
  /\ UNCHANGED uiVars

\* ---- the backend serving a mutation --------------------------------------

HookKinds == {"status", "complete", "update", "assign", "delete"}

\* What the backend does with a request it accepts.
ServerEffect(m, tasks) ==
  IF m.kind = "delete" THEN {t \in tasks : t.id # m.id}
  ELSE {IF t.id = m.id THEN Merge(t, m.patch) ELSE t : t \in tasks}

ServerApply(m) ==
  /\ m \in muts
  /\ m.kind \in HookKinds
  /\ ~m.applied
  /\ \E t \in srvTasks : t.id = m.id
  /\ srvTasks' = ServerEffect(m, srvTasks)
  /\ muts' = (muts \ {m}) \cup {[m EXCEPT !.applied = TRUE]}
  /\ last' = NoLast
  /\ UNCHANGED <<page, srvProjects, cache, fetch, events, nMut, nExt>>
  /\ UNCHANGED utilVars
  /\ UNCHANGED enhVars
  /\ UNCHANGED apiVars
  /\ UNCHANGED uiVars

\* ---- useTaskMutations: settlement ----------------------------------------

\* onSuccess of the five mutations: invalidate ['tasks'], then options.onSuccess.
OnSuccessInvalidate_None(f) == f

OnSuccessInvalidate(f) == InvalidateQueries(f, TaskKeys)

OnSuccess(m) ==
  /\ m \in muts
  /\ m.kind \in HookKinds
  /\ m.applied
  /\ fetch' = OnSuccessInvalidate(fetch)
  /\ muts' = muts \ {m}
  /\ last' = [NoLast EXCEPT !.op = "onSuccess", !.kind = m.kind, !.id = m.id,
                            !.key = m.key, !.previousData = m.previousData,
                            !.before = cache[m.key], !.invalidated = TRUE]
  /\ UNCHANGED <<page, srvTasks, srvProjects, cache, events, nMut, nExt>>
  /\ UNCHANGED utilVars
  /\ UNCHANGED enhVars
  /\ UNCHANGED apiVars
  /\ UNCHANGED uiVars

\* onError of the five mutations: restore context.previousData when there is
\* one, then options.onError.
OnErrorRestore_Skip(c, m) == c

OnErrorRestore(c, m) ==
  IF m.previousData.shape # "undefined"
  THEN SetQueryData(c, HookKey, m.previousData)
  ELSE c

OnError(m) ==
  /\ m \in muts
  /\ m.kind \in HookKinds
  /\ ~m.applied
  /\ IF m.calls <= Retry(m.kind)
     THEN \* the failed request is issued again, onError does not run yet
          /\ muts' = (muts \ {m}) \cup {Reissued(m)}
          /\ last' = [NoLast EXCEPT !.op = "retry", !.kind = m.kind, !.id = m.id,
                                    !.network = TRUE]
          /\ UNCHANGED cache
     ELSE /\ cache' = OnErrorRestore(cache, m)
          /\ muts' = muts \ {m}
          /\ last' = [NoLast EXCEPT !.op = "onError", !.kind = m.kind, !.id = m.id,
                                    !.onError = TRUE, !.key = m.key,
                                    !.previousData = m.previousData, !.before = cache[m.key]]
  /\ UNCHANGED <<page, srvTasks, srvProjects, fetch, events, nMut, nExt>>
  /\ UNCHANGED utilVars
  /\ UNCHANGED enhVars
  /\ UNCHANGED apiVars
  /\ UNCHANGED uiVars

\* ---- SimpleProjectList: optimistic project creation ---------------------

\* The updater of createProjectMutation.onMutate.
CreateProjectUpdater(old, optimisticProject) ==
  IF old.shape = "undefined" THEN Paginated(<<optimisticProject>>)
  ELSE [old EXCEPT !.data = <<optimisticProject>> \o old.data]

\* createProjectMutation.mutate(projectData); the "New Project" button is
\* rendered only once the projects query has data.
CreateProject ==
  /\ page = "projects"
  /\ nMut < MaxMutations
  /\ cache[ProjKey].shape # "undefined"
  /\ nMut' = nMut + 1
  /\ fetch' = CancelQueries(fetch, ProjectKeys)
  /\ cache' = SetQueryData(cache, ProjKey,
                CreateProjectUpdater(cache[ProjKey], Project(TempProjectId(nMut + 1), TRUE)))
  /\ muts' = muts \cup {Mutation(nMut + 1, "createProject", TempProjectId(nMut + 1),
                                 NoPatch, ProjKey, cache[ProjKey])}
  /\ last' = [NoLast EXCEPT !.op = "dispatch", !.kind = "createProject",
                            !.id = TempProjectId(nMut + 1), !.network = TRUE,
                            !.key = ProjKey, !.previousData = cache[ProjKey],
                            !.before = cache[ProjKey]]
  /\ UNCHANGED <<page, srvTasks, srvProjects, events, nExt>>
  /\ UNCHANGED utilVars
  /\ UNCHANGED enhVars
  /\ UNCHANGED apiVars
  /\ UNCHANGED uiVars

\* The backend stores the project under an id of its own.
NextProjectId(projects) == Cardinality(projects) + 1

CreateProjectApply(m) ==
  /\ m \in muts
  /\ m.kind = "createProject"
  /\ ~m.applied
  /\ srvProjects' = srvProjects \cup {Project(NextProjectId(srvProjects), FALSE)}
  /\ muts' = (muts \ {m}) \cup {[m EXCEPT !.applied = TRUE]}
  /\ last' = NoLast
  /\ UNCHANGED <<page, srvTasks, cache, fetch, events, nMut, nExt>>
  /\ UNCHANGED utilVars
  /\ UNCHANGED enhVars
  /\ UNCHANGED apiVars
  /\ UNCHANGED uiVars

\* onError writes context.previousProjects back.
CreateProjectRollback_Skip(c, m) == c

CreateProjectRollback(c, m) == SetQueryData(c, ProjKey, m.previousData)

\* onError, then onSettled.
CreateProjectOnError(m) ==
  /\ m \in muts
  /\ m.kind = "createProject"
  /\ ~m.applied
  /\ cache' = CreateProjectRollback(cache, m)
  /\ fetch' = InvalidateQueries(fetch, ProjectKeys)
  /\ muts' = muts \ {m}
  /\ last' = [NoLast EXCEPT !.op = "onError", !.kind = m.kind, !.id = m.id,
                            !.onError = TRUE, !.key = m.key,
                            !.previousData = m.previousData, !.before = cache[m.key],
                            !.invalidated = TRUE]
  /\ UNCHANGED <<page, srvTasks, srvProjects, events, nMut, nExt>>
  /\ UNCHANGED utilVars
  /\ UNCHANGED enhVars
  /\ UNCHANGED apiVars
  /\ UNCHANGED uiVars

\* onSuccess (empty), then onSettled.
CreateProjectOnSuccess(m) ==
  /\ m \in muts
  /\ m.kind = "createProject"
  /\ m.applied
  /\ fetch' = InvalidateQueries(fetch, ProjectKeys)
  /\ muts' = muts \ {m}
  /\ last' = [NoLast EXCEPT !.op = "onSuccess", !.kind = m.kind, !.id = m.id,
                            !.key = m.key, !.previousData = m.previousData,
                            !.before = cache[m.key], !.invalidated = TRUE]
  /\ UNCHANGED <<page, srvTasks, srvProjects, cache, events, nMut, nExt>>
  /\ UNCHANGED utilVars
  /\ UNCHANGED enhVars
  /\ UNCHANGED apiVars
  /\ UNCHANGED uiVars

\* ---- other clients and the realtime channel ------------------------------

Event(type, task) == [type |-> type, task |-> task]

\* Another client changes a task's status; the backend broadcasts task.updated.
ExternalUpdate(id, status) ==
  /\ page = "dashboard"
  /\ nExt < MaxExternal
  /\ \E t \in srvTasks :
       /\ t.id = id
       /\ t.status # status
       /\ srvTasks' = (srvTasks \ {t}) \cup {[t EXCEPT !.status = status]}
       /\ events' = events \cup {Event("task.updated", [t EXCEPT !.status = status])}
  /\ nExt' = nExt + 1
  /\ last' = NoLast
  /\ UNCHANGED <<page, srvProjects, cache, fetch, muts, nMut>>
  /\ UNCHANGED utilVars
  /\ UNCHANGED enhVars
  /\ UNCHANGED apiVars
  /\ UNCHANGED uiVars

\* Another client completes a task; the backend broadcasts task.completed.
ExternalComplete(id) ==
  /\ page = "dashboard"
  /\ nExt < MaxExternal
  /\ \E t \in srvTasks :
       /\ t.id = id
       /\ t.status # "completed"
       /\ srvTasks' = (srvTasks \ {t}) \cup {[t EXCEPT !.status = "completed", !.completed_at = 1]}
       /\ events' = events \cup {Event("task.completed",
                                       [t EXCEPT !.status = "completed", !.completed_at = 1])}
  /\ nExt' = nExt + 1
  /\ last' = NoLast
  /\ UNCHANGED <<page, srvProjects, cache, fetch, muts, nMut>>
  /\ UNCHANGED utilVars
  /\ UNCHANGED enhVars
  /\ UNCHANGED apiVars
  /\ UNCHANGED uiVars

\* Another client creates a task; the backend broadcasts task.created.
ExternalCreate ==
  /\ page = "dashboard"
  /\ nExt < MaxExternal
  /\ \A t \in srvTasks : t.id # NewTaskId
  /\ srvTasks' = srvTasks \cup {Task(NewTaskId, "pending", 0, 0)}
  /\ events' = events \cup {Event("task.created", Task(NewTaskId, "pending", 0, 0))}
  /\ nExt' = nExt + 1
  /\ last' = NoLast
  /\ UNCHANGED <<page, srvProjects, cache, fetch, muts, nMut>>
  /\ UNCHANGED utilVars
  /\ UNCHANGED enhVars
  /\ UNCHANGED apiVars
  /\ UNCHANGED uiVars

\* The updater of handleTaskCreated.
TaskCreatedUpdater(oldData, task) ==
  IF oldData.shape = "undefined" THEN oldData
  ELSE [oldData EXCEPT !.data = <<task>> \o oldData.data]

\* updateTaskInArray
updateTaskInArray(tasks, task) ==
  [i \in 1..Len(tasks) |-> IF tasks[i].id = task.id THEN Merge(tasks[i], task) ELSE tasks[i]]

\* The updater of handleTaskUpdated.
TaskUpdatedUpdater(oldData, task) ==
  IF oldData.shape = "undefined" THEN oldData
  ELSE [oldData EXCEPT !.data = updateTaskInArray(oldData.data, task)]

\* queryClient.setQueriesData({queryKey: ['tasks']}, updater) of the handlers
SetCreatedInTaskQueries(c, task) ==
  [k \in Keys |-> IF k \in TaskKeys THEN TaskCreatedUpdater(c[k], task) ELSE c[k]]

SetUpdatedInTaskQueries(c, task) ==
  [k \in Keys |-> IF k \in TaskKeys THEN TaskUpdatedUpdater(c[k], task) ELSE c[k]]

\* The invalidation that ends handleTaskCreated and handleTaskUpdated.
HandlerInvalidate_None(f) == f

HandlerInvalidate(f) == InvalidateQueries(f, TaskKeys)

handleTaskCreated(e) ==
  /\ page = "dashboard"
  /\ e \in events
  /\ e.type = "task.created"
  /\ cache' = SetCreatedInTaskQueries(cache, e.task)
  /\ fetch' = HandlerInvalidate(fetch)
  /\ events' = events \ {e}
  /\ last' = [NoLast EXCEPT !.op = "event", !.kind = e.type, !.id = e.task.id,
                            !.patch = e.task, !.before = cache, !.invalidated = TRUE]
  /\ UNCHANGED <<page, srvTasks, srvProjects, muts, nMut, nExt>>
  /\ UNCHANGED utilVars
  /\ UNCHANGED enhVars
  /\ UNCHANGED apiVars
  /\ UNCHANGED uiVars

handleTaskUpdated(e) ==
  /\ page = "dashboard"
  /\ e \in events
  /\ e.type = "task.updated"
  /\ cache' = SetUpdatedInTaskQueries(cache, e.task)
  /\ fetch' = HandlerInvalidate(fetch)
  /\ events' = events \ {e}
  /\ last' = [NoLast EXCEPT !.op = "event", !.kind = e.type, !.id = e.task.id,
                            !.patch = e.task, !.before = cache, !.invalidated = TRUE]
  /\ UNCHANGED <<page, srvTasks, srvProjects, muts, nMut, nExt>>
  /\ UNCHANGED utilVars
  /\ UNCHANGED enhVars
  /\ UNCHANGED apiVars
  /\ UNCHANGED uiVars

\* handleTaskCompleted calls handleTaskUpdated.
handleTaskCompleted(e) ==
  /\ page = "dashboard"
  /\ e \in events
  /\ e.type = "task.completed"
  /\ cache' = SetUpdatedInTaskQueries(cache, e.task)
  /\ fetch' = HandlerInvalidate(fetch)
  /\ events' = events \ {e}
  /\ last' = [NoLast EXCEPT !.op = "event", !.kind = e.type, !.id = e.task.id,
                            !.patch = e.task, !.before = cache, !.invalidated = TRUE]
  /\ UNCHANGED <<page, srvTasks, srvProjects, muts, nMut, nExt>>
  /\ UNCHANGED utilVars
  /\ UNCHANGED enhVars
  /\ UNCHANGED apiVars
  /\ UNCHANGED uiVars

HookNext ==
  \/ \E k \in Keys : FetchServe(k)
  \/ \E k \in Keys : FetchReturn(k)
  \/ \E k \in Keys : Refetch(k)
  \/ \E id \in TaskIds, status \in Statuses : UpdateTaskStatus(id, status)
  \/ \E id \in TaskIds : CompleteTask(id)
  \/ \E id \in TaskIds, updates \in UpdateInputs : UpdateTask(id, updates)
  \/ \E id \in TaskIds, userId \in Users : AssignTask(id, userId)
  \/ \E id \in TaskIds : DeleteTask(id)
  \/ \E m \in muts : ServerApply(m)
  \/ \E m \in muts : OnSuccess(m)
  \/ \E m \in muts : OnError(m)
  \/ CreateProject
  \/ \E m \in muts : CreateProjectApply(m)
  \/ \E m \in muts : CreateProjectOnError(m)
  \/ \E m \in muts : CreateProjectOnSuccess(m)
  \/ \E id \in TaskIds, status \in Statuses : ExternalUpdate(id, status)
  \/ \E id \in TaskIds : ExternalComplete(id)
  \/ ExternalCreate
  \/ \E e \in events : handleTaskCreated(e)
  \/ \E e \in events : handleTaskUpdated(e)
  \/ \E e \in events : handleTaskCompleted(e)

SpecHook == HookInit /\ [][HookNext]_vars

(***************************************************************************)
(* SpecList: SimpleTaskList, its status dropdown and the mutations it      *)
(* dispatches through useTaskMutations                                     *)
(***************************************************************************)

DropdownOptions_All(task) == <<"pending", "in_progress", "completed", "cancelled">>

\* The options of a row's status dropdown.
DropdownOptions(task) == getAllowedStatusOptions(task.status)

\* const tasks = tasksResponse?.data || []
ListTasks == IF HasData(cache[ListKey]) THEN cache[ListKey].data ELSE <<>>

\* SimpleTaskList is mounted and its query starts.
ListInit ==
  /\ HookInit
  /\ page = "tasks"

\* The user picks another option in a row's dropdown (the select is
\* disabled while a mutation of the hook is pending): handleStatusChange.
ListHandleStatusChange(i, newStatus) ==
  /\ i \in 1..Len(ListTasks)
  /\ muts = {}
  /\ Includes(DropdownOptions(ListTasks[i]), newStatus)
  /\ newStatus # ListTasks[i].status
  /\ UpdateTaskStatus(ListTasks[i].id, newStatus)

ListNext ==
  \/ \E k \in Keys : FetchServe(k)
  \/ \E k \in Keys : FetchReturn(k)
  \/ \E k \in Keys : Refetch(k)
  \/ \E i \in 1..Len(ListTasks), newStatus \in Statuses : ListHandleStatusChange(i, newStatus)
  \/ \E m \in muts : ServerApply(m)
  \/ \E m \in muts : OnSuccess(m)
  \/ \E m \in muts : OnError(m)

SpecList == ListInit /\ [][ListNext]_vars

(***************************************************************************)
(* SpecRender: the render functions of the views over the query cache      *)
(***************************************************************************)

\* created_at of a task: the backend numbers the tasks in the order of
\* their creation.
CreatedAt(t) == t.id

\* One step of Array.prototype.sort with the comparator
\* (a, b) => created_at(b) - created_at(a): t goes behind every element that
\* is not older than it (the sort is stable).
InsertRecent(sorted, t) ==
  LET k == Cardinality({i \in 1..Len(sorted) : CreatedAt(sorted[i]) >= CreatedAt(t)})
  IN SubSeq(sorted, 1, k) \o <<t>> \o SubSeq(sorted, k + 1, Len(sorted))

RECURSIVE SortRecent(_)
SortRecent(d) ==
  IF d = <<>> THEN <<>>
  ELSE InsertRecent(SortRecent(SubSeq(d, 1, Len(d) - 1)), d[Len(d)])

\* The array that `tasks` names after recentTasks has been computed:
\* tasks.sort(...) sorts the array it is called on, and a copy leaves it.
TasksAfterRecent_Copy(d) == d

TasksAfterRecent(d) == SortRecent(d)

\* recentTasks and urgentTasks of Dashboard
Take(d, n) == SubSeq(d, 1, IF Len(d) < n THEN Len(d) ELSE n)

\* The render function of Dashboard: `tasks` is the cached array of
\* ['tasks', {limit: 100}] or, without data, a new empty array; the
\* statistics filter it, recentTasks sorts it.
RenderDashboard ==
  /\ page = "dashboard"
  /\ cache' = IF cache[DashKey].shape = "undefined" THEN cache
              ELSE [cache EXCEPT ![DashKey].data = TasksAfterRecent(@)]
  /\ last' = [NoLast EXCEPT !.op = "render", !.kind = page, !.key = DashKey,
                            !.before = cache[DashKey],
                            !.shown = IF cache[DashKey].data = <<>> THEN "none"
                                      ELSE Take(SortRecent(cache[DashKey].data), 5)[1].status]
  /\ UNCHANGED <<page, srvTasks, srvProjects, fetch, muts, events, nMut, nExt>>
  /\ UNCHANGED utilVars
  /\ UNCHANGED enhVars
  /\ UNCHANGED apiVars
  /\ UNCHANGED uiVars

\* The render functions of SimpleTaskList and SimpleProjectList: the rows
\* are mapped from response?.data || [].
RenderList ==
  /\ page \in {"tasks", "projects"}
  /\ last' = [NoLast EXCEPT !.op = "render", !.kind = page, !.key = ObservedKey(page),
                            !.before = cache[ObservedKey(page)]]
  /\ UNCHANGED <<page, srvTasks, srvProjects, cache, fetch, muts, events, nMut, nExt>>
  /\ UNCHANGED utilVars
  /\ UNCHANGED enhVars
  /\ UNCHANGED apiVars
  /\ UNCHANGED uiVars

RenderNext ==
  \/ HookNext
  \/ RenderDashboard
  \/ RenderList

SpecRender == HookInit /\ [][RenderNext]_vars

(***************************************************************************)
(* SpecEnh: EnhancedTaskList and its list of optimistic overlays           *)
(***************************************************************************)

\* user.role
Roles == {"admin", "manager", "member"}

\* The roles explored: admin and manager take the same branch of every
\* condition of the component, so one of the two stands for both.
EnhRoles == {"manager", "member"}

\* now - update.timestamp < 5000 (in seconds)
OverlayExpiry == 5

\* setInterval(cleanup, 1000) (in seconds)
SweepInterval == 1

\* Bound on the clock.
MaxTime == 5

\* Bound on the number of mutations EnhancedTaskList dispatches.
MaxEnhMutations == 2

\* interface OptimisticUpdate
OptimisticUpdate(id, originalData, newData, timestamp) ==
  [id |-> id, originalData |-> originalData, newData |-> newData, timestamp |-> timestamp]

\* const tasks = tasksResponse?.data || []
EnhTasks(c) == IF HasData(c[EnhKey]) THEN c[EnhKey].data ELSE <<>>

\* The overlays of one task id, in list order.
OverlaysOf(ups, id) == SelectSeq(ups, LAMBDA u : u.id = id)

\* tasks.map(task => overlay found ? { ...task, ...overlay.newData } : task)
tasksWithOptimisticUpdates(tasks, ups) ==
  [i \in 1..Len(tasks) |->
     IF OverlaysOf(ups, tasks[i].id) # <<>>
     THEN Merge(tasks[i], Head(OverlaysOf(ups, tasks[i].id)).newData)
     ELSE tasks[i]]

\* The rows of the rendered list that carry task id.
Rows(c, ups, id) ==
  LET shown == tasksWithOptimisticUpdates(EnhTasks(c), ups)
  IN {shown[i] : i \in {j \in 1..Len(shown) : shown[j].id = id}}

canEditTask(task) ==
  CASE role = "admin"   -> TRUE
    [] role = "manager" -> TRUE
    [] role = "member"  -> task.user_id = UserId
    [] OTHER            -> FALSE

\* applyOptimisticUpdate of EnhancedTaskList
EnhApplyOptimisticUpdate_Append(ups, tasks, taskId, newData, timestamp) ==
  LET found == {i \in 1..Len(tasks) : tasks[i].id = taskId}
      first == CHOOSE i \in found : \A j \in found : i <= j
  IN IF found = {} THEN ups
     ELSE ups \o <<OptimisticUpdate(taskId, tasks[first], newData, timestamp)>>

EnhApplyOptimisticUpdate(ups, tasks, taskId, newData, timestamp) ==
  LET found == {i \in 1..Len(tasks) : tasks[i].id = taskId}
      first == CHOOSE i \in found : \A j \in found : i <= j
  IN IF found = {} THEN ups
     ELSE SelectSeq(ups, LAMBDA u : u.id # taskId)
            \o <<OptimisticUpdate(taskId, tasks[first], newData, timestamp)>>

rollbackOptimisticUpdate_Keep(ups, taskId) == ups

rollbackOptimisticUpdate(ups, taskId) == SelectSeq(ups, LAMBDA u : u.id # taskId)

\* <mutation>.isPending of the three useMutation instances
IsPending(kind) == \E m \in muts : m.kind = kind

\* A mutation of EnhancedTaskList in flight: the variables of mutate(), the
\* overlay data its mutationFn wrote, the time it did so, whether it found the
\* task to overlay, and whether the backend has applied the request.
EnhMutation(n, kind, id, patch, at, overlaid) ==
  [mid |-> n, kind |-> kind, id |-> id, patch |-> patch, at |-> at,
   overlaid |-> overlaid, applied |-> FALSE, calls |-> 1]

EnhInit ==
  /\ UtilIdle
  /\ ApiIdle
  /\ UiIdle
  /\ page = "enhanced"
  /\ srvTasks = {Task(i, InitStatus(i), 0, IF InitStatus(i) = "completed" THEN 1 ELSE 0) : i \in TaskIds}
  /\ srvProjects = {Project(1, FALSE)}
  /\ cache = [k \in Keys |-> Undefined]
  /\ fetch = [k \in Keys |-> IF k = ObservedKey(page) THEN Pending ELSE Idle]
  /\ muts = {}
  /\ events = {}
  /\ nMut = 0
  /\ nExt = 0
  /\ last = NoLast
  /\ role \in EnhRoles
  /\ optimisticUpdates = <<>>
  /\ taskToDelete = 0
  /\ now = 0
  /\ sweepDue = FALSE

\* mutate(): the mutationFn writes the overlay and sends the request.
EnhMutate(kind, id, newData) ==
  /\ page = "enhanced"
  /\ nMut < MaxEnhMutations
  /\ nMut' = nMut + 1
  /\ optimisticUpdates' =
       EnhApplyOptimisticUpdate(optimisticUpdates, EnhTasks(cache), id, newData, now)
  /\ muts' = muts \cup {EnhMutation(nMut + 1, kind, id, newData, now,
                                    FindTask(cache[EnhKey], id) # {})}
  /\ last' = [NoLast EXCEPT !.op = "dispatch", !.kind = kind, !.id = id,
                            !.from = ShownStatus(cache[EnhKey], id),
                            !.shown = ShownStatus(Paginated(tasksWithOptimisticUpdates(
                                                    EnhTasks(cache), optimisticUpdates)), id),
                            !.to = newData.status, !.patch = newData,
                            !.network = TRUE, !.key = EnhKey, !.before = optimisticUpdates]
  /\ UNCHANGED <<page, srvTasks, srvProjects, cache, fetch, events, nExt>>
  /\ UNCHANGED <<role, taskToDelete, now, sweepDue>>
  /\ UNCHANGED apiVars
  /\ UNCHANGED uiVars
  /\ UNCHANGED utilVars

\* The status dropdown of a row: onChange with one of its four options.
handleStatusChange(taskId, newStatus) ==
  /\ \E t \in Rows(cache, optimisticUpdates, taskId) :
       /\ canEditTask(t)
       /\ t.status # newStatus
  /\ ~IsPending("status")
  /\ EnhMutate("status", taskId, [status |-> newStatus])

\* The quick-complete button of a row.
handleQuickComplete(taskId) ==
  /\ \E t \in Rows(cache, optimisticUpdates, taskId) :
       /\ t.status # "completed"
       /\ canEditTask(t)
  /\ ~IsPending("complete")
  /\ EnhMutate("complete", taskId, [status |-> "completed", completed_at |-> 1])

\* The delete button of a row opens the confirmation.
handleDeleteTask(taskId) ==
  /\ page = "enhanced"
  /\ \E t \in Rows(cache, optimisticUpdates, taskId) : canEditTask(t)
  /\ role # "member"
  /\ ~IsPending("delete")
  /\ taskToDelete' = taskId
  /\ last' = NoLast
  /\ UNCHANGED <<page, srvTasks, srvProjects, cache, fetch, muts, events, nMut, nExt>>
  /\ UNCHANGED <<role, optimisticUpdates, now, sweepDue>>
  /\ UNCHANGED apiVars
  /\ UNCHANGED uiVars
  /\ UNCHANGED utilVars

\* onCancel of the confirmation.
cancelDeleteTask ==
  /\ page = "enhanced"
  /\ taskToDelete # 0
  /\ taskToDelete' = 0
  /\ last' = NoLast
  /\ UNCHANGED <<page, srvTasks, srvProjects, cache, fetch, muts, events, nMut, nExt>>
  /\ UNCHANGED <<role, optimisticUpdates, now, sweepDue>>
  /\ UNCHANGED apiVars
  /\ UNCHANGED uiVars
  /\ UNCHANGED utilVars

\* onConfirm of the confirmation (disabled while the delete is loading).
confirmDeleteTask ==
  /\ taskToDelete # 0
  /\ ~IsPending("delete")
  /\ EnhMutate("delete", taskToDelete, [status |-> "cancelled"])

\* queryClient.invalidateQueries({ queryKey: ['tasks'] }) of the onSuccess callbacks
EnhOnSuccessInvalidate(f) == InvalidateQueries(f, TaskKeys)

\* onSuccess of deleteTaskMutation / updateStatusMutation / completeTaskMutation
EnhOnSuccess(m) ==
  /\ page = "enhanced"
  /\ m \in muts
  /\ m.applied
  /\ fetch' = EnhOnSuccessInvalidate(fetch)
  /\ taskToDelete' = IF m.kind = "delete" THEN 0 ELSE taskToDelete
  /\ optimisticUpdates' = rollbackOptimisticUpdate(optimisticUpdates, m.id)
  /\ muts' = muts \ {m}
  /\ last' = [NoLast EXCEPT !.op = "onSuccess", !.kind = m.kind, !.id = m.id,
                            !.patch = m.patch, !.key = EnhKey,
                            !.before = optimisticUpdates, !.invalidated = TRUE]
  /\ UNCHANGED <<page, srvTasks, srvProjects, cache, events, nMut, nExt>>
  /\ UNCHANGED <<role, now, sweepDue>>
  /\ UNCHANGED apiVars
  /\ UNCHANGED uiVars
  /\ UNCHANGED utilVars

\* onError of deleteTaskMutation / updateStatusMutation / completeTaskMutation
EnhOnError(m) ==
  /\ page = "enhanced"
  /\ m \in muts
  /\ ~m.applied
  /\ IF m.calls <= Retry(m.kind)
     THEN \* the failed request is issued again, onError does not run yet
          /\ muts' = (muts \ {m}) \cup {Reissued(m)}
          /\ last' = [NoLast EXCEPT !.op = "retry", !.kind = m.kind, !.id = m.id,
                                    !.network = TRUE]
          /\ UNCHANGED optimisticUpdates
     ELSE /\ optimisticUpdates' = rollbackOptimisticUpdate(optimisticUpdates, m.id)
          /\ muts' = muts \ {m}
          /\ last' = [NoLast EXCEPT !.op = "onError", !.kind = m.kind, !.id = m.id,
                                    !.patch = m.patch, !.onError = TRUE, !.key = EnhKey,
                                    !.before = optimisticUpdates]
  /\ UNCHANGED <<page, srvTasks, srvProjects, cache, fetch, events, nMut, nExt>>
  /\ UNCHANGED <<role, taskToDelete, now, sweepDue>>
  /\ UNCHANGED apiVars
  /\ UNCHANGED uiVars
  /\ UNCHANGED utilVars

\* The clock advances by one interval of the cleanup timer, which queues the
\* timer's callback.
Tick ==
  /\ page = "enhanced"
  /\ now + SweepInterval <= MaxTime
  /\ ~sweepDue
  /\ now' = now + SweepInterval
  /\ sweepDue' = TRUE
  /\ last' = NoLast
  /\ UNCHANGED <<page, srvTasks, srvProjects, cache, fetch, muts, events, nMut, nExt>>
  /\ UNCHANGED <<role, optimisticUpdates, taskToDelete>>
  /\ UNCHANGED apiVars
  /\ UNCHANGED uiVars
  /\ UNCHANGED utilVars

\* prev.filter(update => now - update.timestamp < 5000)
Unexpired_KeepAll(ups, t) == ups

Unexpired(ups, t) == SelectSeq(ups, LAMBDA u : t - u.timestamp < OverlayExpiry)

\* The callback of the cleanup timer.
cleanup ==
  /\ page = "enhanced"
  /\ sweepDue
  /\ sweepDue' = FALSE
  /\ optimisticUpdates' = Unexpired(optimisticUpdates, now)
  /\ last' = [NoLast EXCEPT !.op = "cleanup", !.before = optimisticUpdates]
  /\ UNCHANGED <<page, srvTasks, srvProjects, cache, fetch, muts, events, nMut, nExt>>
  /\ UNCHANGED <<role, taskToDelete, now>>
  /\ UNCHANGED apiVars
  /\ UNCHANGED uiVars
  /\ UNCHANGED utilVars

\* The tasks query refetches on invalidation only: its refetchInterval is
\* false unless VITE_ENABLE_REAL_TIME is set.
EnhNext ==
  \/ \E k \in Keys : FetchServe(k)
  \/ \E k \in Keys : FetchReturn(k)
  \/ \E id \in TaskIds, status \in Statuses : handleStatusChange(id, status)
  \/ \E id \in TaskIds : handleQuickComplete(id)
  \/ \E id \in TaskIds : handleDeleteTask(id)
  \/ cancelDeleteTask
  \/ confirmDeleteTask
  \/ \E m \in muts : ServerApply(m)
  \/ \E m \in muts : EnhOnSuccess(m)
  \/ \E m \in muts : EnhOnError(m)
  \/ Tick
  \/ cleanup

SpecEnh == EnhInit /\ [][EnhNext]_vars

(***************************************************************************)
(* SpecSweep: the cleanup timer of EnhancedTaskList in the session of a    *)
(* member, with the timer and the clock scheduled fairly                   *)
(***************************************************************************)

\* A member signs in; the component mounts as in EnhInit.
SweepInit ==
  /\ UtilIdle
  /\ ApiIdle
  /\ UiIdle
  /\ page = "enhanced"
  /\ srvTasks = {Task(i, InitStatus(i), 0, IF InitStatus(i) = "completed" THEN 1 ELSE 0) : i \in TaskIds}
  /\ srvProjects = {Project(1, FALSE)}
  /\ cache = [k \in Keys |-> Undefined]
  /\ fetch = [k \in Keys |-> IF k = ObservedKey(page) THEN Pending ELSE Idle]
  /\ muts = {}
  /\ events = {}
  /\ nMut = 0
  /\ nExt = 0
  /\ last = NoLast
  /\ role = "member"
  /\ optimisticUpdates = <<>>
  /\ taskToDelete = 0
  /\ now = 0
  /\ sweepDue = FALSE

\* The rows of a member show no delete button.
SweepNext ==
  \/ \E k \in Keys : FetchServe(k)
  \/ \E k \in Keys : FetchReturn(k)
  \/ \E id \in TaskIds, status \in Statuses : handleStatusChange(id, status)
  \/ \E id \in TaskIds : handleQuickComplete(id)
  \/ \E m \in muts : ServerApply(m)
  \/ \E m \in muts : EnhOnSuccess(m)
  \/ \E m \in muts : EnhOnError(m)
  \/ Tick
  \/ cleanup

\* The browser runs a queued timer callback, and time passes.
SpecSweep == SweepInit /\ [][SweepNext]_vars /\ WF_vars(Tick) /\ WF_vars(cleanup)

(***************************************************************************)
(* SpecRealtime: the realtime handlers of useDashboardRealtime and         *)
(* useProjectRealtime, on the query cache that the visited views filled    *)
(***************************************************************************)

\* Bound on the number of realtime events broadcast in one behaviour.
MaxEvents == 2

\* The id of a project that the cached collections do not hold.
NewProjectId == 2

\* A task entity that omits the optional field completed_at.
LeanTask(i, s) == [id |-> i, status |-> s, assigned_to |-> 0, user_id |-> OwnerOf(i)]

\* The payloads { task } of the task events.
TaskEventInputs ==
  {Event("task.created", Task(i, "pending", 0, 0)) : i \in 1..NewTaskId}
    \cup {Event("task.updated", Task(i, "in_progress", 0, 0)) : i \in 1..NewTaskId}
    \cup {Event("task.updated", LeanTask(i, "in_progress")) : i \in 1..NewTaskId}
    \cup {Event("task.completed", Task(i, "completed", 0, 1)) : i \in 1..NewTaskId}

\* A project event with the payload { project }.
ProjectEvent(type, project) == [type |-> type, project |-> project]

\* A project.deleted event with the payload { project_id }.
ProjectDeletedById(id) == [type |-> "project.deleted", project_id |-> id]

\* The project entity that an event carries.
EventProject(i) == [id |-> i, name |-> "renamed", _optimistic |-> FALSE]

ProjectEventInputs ==
  {ProjectEvent(t, EventProject(i)) :
     t \in {"project.created", "project.updated", "project.deleted"}, i \in 1..NewProjectId}
    \cup {ProjectDeletedById(i) : i \in 1..NewProjectId}

EventInputs == TaskEventInputs \cup ProjectEventInputs

\* { ...oldData, data: d } with oldData an array: an object that keeps the
\* array's elements as index properties and has the property data, which is
\* d, or undefined when hasData is false.
Spread(items, hasData, d) ==
  [shape |-> "spread", items |-> items, hasData |-> hasData, data |-> d]

\* oldData.data is defined
HasDataField(old) == old.shape = "page" \/ (old.shape = "spread" /\ old.hasData)

\* { ...oldData, data: d }
WithData(old, d) ==
  CASE old.shape = "array"  -> Spread(old.data, TRUE, d)
    [] old.shape = "spread" -> Spread(old.items, TRUE, d)
    [] OTHER                -> [old EXCEPT !.data = d]

\* { ...oldData, data: undefined }
WithoutData(old) ==
  CASE old.shape = "array"  -> Spread(old.data, FALSE, <<>>)
    [] old.shape = "spread" -> Spread(old.items, FALSE, <<>>)
    [] OTHER                -> old

\* { ...data.project, _optimistic: undefined }
ClearOptimistic(project) == Merge(project, [_optimistic |-> FALSE])

\* data.map(p => p.id === project.id ? { ...project, _optimistic: undefined } : p)
ReplaceProject(data, project) ==
  [i \in 1..Len(data) |-> IF data[i].id = project.id THEN ClearOptimistic(project) ELSE data[i]]

\* The updater of handleProjectCreated.
ProjectCreatedUpdater(oldData, project) ==
  IF oldData.shape = "undefined" THEN oldData
  ELSE LET data == IF HasDataField(oldData) THEN oldData.data ELSE <<>>
           exists == \E i \in 1..Len(data) : data[i].id = project.id
       IN IF exists THEN WithData(oldData, ReplaceProject(data, project))
          ELSE WithData(oldData, <<project>> \o data)

\* The updater of handleProjectUpdated.
ProjectUpdatedUpdater(oldData, project) ==
  IF oldData.shape = "undefined" THEN oldData
  ELSE IF HasDataField(oldData) THEN WithData(oldData, ReplaceProject(oldData.data, project))
  ELSE WithoutData(oldData)

\* data.project_id of a project.deleted event (0 stands for undefined)
DeletedProjectId(e) == IF "project_id" \in DOMAIN e THEN e.project_id ELSE 0

\* The updater of handleProjectDeleted.
ProjectDeletedUpdater(oldData, e) ==
  IF oldData.shape = "undefined" THEN oldData
  ELSE IF HasDataField(oldData)
       THEN WithData(oldData, SelectSeq(oldData.data, LAMBDA p : p.id # DeletedProjectId(e)))
  ELSE WithoutData(oldData)

\* handleProjectCreated: setQueriesData({ queryKey: ['projects'] }, updater),
\* then setQueryData(['projects', 'all'], updater)
SetCreatedInProjectQueries(c, project) ==
  LET c1 == [k \in Keys |-> IF k \in ProjectKeys THEN ProjectCreatedUpdater(c[k], project) ELSE c[k]]
  IN SetQueryData(c1, ProjKey, ProjectCreatedUpdater(c1[ProjKey], project))

\* handleProjectUpdated: the same two writes
SetUpdatedInProjectQueries(c, project) ==
  LET c1 == [k \in Keys |-> IF k \in ProjectKeys THEN ProjectUpdatedUpdater(c[k], project) ELSE c[k]]
  IN SetQueryData(c1, ProjKey, ProjectUpdatedUpdater(c1[ProjKey], project))

\* handleProjectDeleted: setQueriesData({ queryKey: ['projects'] }, updater)
SetDeletedInProjectQueries(c, e) ==
  [k \in Keys |-> IF k \in ProjectKeys THEN ProjectDeletedUpdater(c[k], e) ELSE c[k]]

\* The user lands on the dashboard; its two queries start.
RealtimeInit ==
  /\ UtilIdle
  /\ ApiIdle
  /\ UiIdle
  /\ EnhIdle
  /\ page = "dashboard"
  /\ srvTasks = {Task(i, InitStatus(i), 0, IF InitStatus(i) = "completed" THEN 1 ELSE 0) : i \in TaskIds}
  /\ srvProjects = {Project(1, FALSE)}
  /\ cache = [k \in Keys |-> Undefined]
  /\ fetch = [k \in Keys |-> IF k \in ObservedKeys(page) THEN Pending ELSE Idle]
  /\ muts = {}
  /\ events = {}
  /\ nMut = 0
  /\ nExt = 0
  /\ last = NoLast

\* The user opens another route once the mounted one has loaded: its queries
\* mount and fetch; what the queries of the route left behind have cached
\* stays in the cache.
Mount(pg) ==
  /\ pg \in Pages
  /\ pg # page
  /\ \A k \in Keys : fetch[k] = Idle
  /\ page' = pg
  /\ fetch' = [k \in Keys |-> IF k \in ObservedKeys(pg) THEN Pending ELSE fetch[k]]
  /\ last' = NoLast
  /\ UNCHANGED <<srvTasks, srvProjects, cache, muts, events, nMut, nExt>>
  /\ UNCHANGED utilVars
  /\ UNCHANGED enhVars
  /\ UNCHANGED apiVars
  /\ UNCHANGED uiVars

\* The backend broadcasts an event on the organization channel.
Broadcast(e) ==
  /\ nExt < MaxEvents
  /\ e \in EventInputs
  /\ e \notin events
  /\ events' = events \cup {e}
  /\ nExt' = nExt + 1
  /\ last' = NoLast
  /\ UNCHANGED <<page, srvTasks, srvProjects, cache, fetch, muts, nMut>>
  /\ UNCHANGED utilVars
  /\ UNCHANGED enhVars
  /\ UNCHANGED apiVars
  /\ UNCHANGED uiVars

\* useProjectRealtime
handleProjectCreated(e) ==
  /\ page = "projects"
  /\ e \in events
  /\ e.type = "project.created"
  /\ cache' = SetCreatedInProjectQueries(cache, e.project)
  /\ events' = events \ {e}
  /\ last' = [NoLast EXCEPT !.op = "event", !.kind = e.type, !.id = e.project.id,
                            !.patch = e.project, !.before = cache]
  /\ UNCHANGED <<page, srvTasks, srvProjects, fetch, muts, nMut, nExt>>
  /\ UNCHANGED utilVars
  /\ UNCHANGED enhVars
  /\ UNCHANGED apiVars
  /\ UNCHANGED uiVars

handleProjectUpdated(e) ==
  /\ page = "projects"
  /\ e \in events
  /\ e.type = "project.updated"
  /\ cache' = SetUpdatedInProjectQueries(cache, e.project)
  /\ events' = events \ {e}
  /\ last' = [NoLast EXCEPT !.op = "event", !.kind = e.type, !.id = e.project.id,
                            !.patch = e.project, !.before = cache]
  /\ UNCHANGED <<page, srvTasks, srvProjects, fetch, muts, nMut, nExt>>
  /\ UNCHANGED utilVars
  /\ UNCHANGED enhVars
  /\ UNCHANGED apiVars
  /\ UNCHANGED uiVars

handleProjectDeleted(e) ==
  /\ page = "projects"
  /\ e \in events
  /\ e.type = "project.deleted"
  /\ cache' = SetDeletedInProjectQueries(cache, e)
  /\ events' = events \ {e}
  /\ last' = [NoLast EXCEPT !.op = "event", !.kind = e.type,
                            !.id = IF "project" \in DOMAIN e THEN e.project.id ELSE e.project_id,
                            !.patch = e, !.before = cache]
  /\ UNCHANGED <<page, srvTasks, srvProjects, fetch, muts, nMut, nExt>>
  /\ UNCHANGED utilVars
  /\ UNCHANGED enhVars
  /\ UNCHANGED apiVars
  /\ UNCHANGED uiVars

\* useDashboardRealtime: handleProjectCreated and handleProjectUpdated only
\* invalidate the projects queries.
DashboardProjectEvent(e) ==
  /\ page = "dashboard"
  /\ e \in events
  /\ e.type \in {"project.created", "project.updated"}
  /\ fetch' = InvalidateQueries(fetch, ProjectKeys)
  /\ events' = events \ {e}
  /\ last' = [NoLast EXCEPT !.op = "invalidate", !.kind = e.type, !.id = e.project.id,
                            !.before = cache, !.invalidated = TRUE]
  /\ UNCHANGED <<page, srvTasks, srvProjects, cache, muts, nMut, nExt>>
  /\ UNCHANGED utilVars
  /\ UNCHANGED enhVars
  /\ UNCHANGED apiVars
  /\ UNCHANGED uiVars

\* The event types that the mounted route listens to.
Listened(pg) ==
  CASE pg = "dashboard" -> {"project.created", "project.updated",
                            "task.created", "task.updated", "task.completed"}
    [] pg = "projects"  -> {"project.created", "project.updated", "project.deleted"}
    [] OTHER            -> {}

\* An event that no listener of the mounted route is bound to.
Unheard(e) ==
  /\ e \in events
  /\ e.type \notin Listened(page)
  /\ events' = events \ {e}
  /\ last' = NoLast
  /\ UNCHANGED <<page, srvTasks, srvProjects, cache, fetch, muts, nMut, nExt>>
  /\ UNCHANGED utilVars
  /\ UNCHANGED enhVars
  /\ UNCHANGED apiVars
  /\ UNCHANGED uiVars

RealtimeNext ==
  \/ \E k \in Keys : FetchServe(k)
  \/ \E k \in Keys : FetchReturn(k)
  \/ \E pg \in Pages : Mount(pg)
  \/ \E e \in EventInputs : Broadcast(e)
  \/ \E e \in events : handleTaskCreated(e)
  \/ \E e \in events : handleTaskUpdated(e)
  \/ \E e \in events : handleTaskCompleted(e)
  \/ \E e \in events : handleProjectCreated(e)
  \/ \E e \in events : handleProjectUpdated(e)
  \/ \E e \in events : handleProjectDeleted(e)
  \/ \E e \in events : DashboardProjectEvent(e)
  \/ \E e \in events : Unheard(e)

SpecRealtime == RealtimeInit /\ [][RealtimeNext]_vars

(***************************************************************************)
(* SpecShape: the views that share the key ['projects'], each with its own *)
(* query function, and the realtime handlers                               *)
(***************************************************************************)

\* The routes, EnhancedTaskList included.
ShapePages == Pages \cup {"enhanced"}

\* The query function that the mounted view passes for a key: Dashboard's
\* for ['projects'] is getProjects().then(res => res.data), that of
\* EnhancedTaskList is getProjects(1, 100).
QueryFnOf(pg, k, tasks, projects) ==
  IF k = ProjRootKey /\ pg = "enhanced" THEN Paginated(SortById(projects))
  ELSE QueryFn(k, tasks, projects)

ShapeInit ==
  /\ UtilIdle
  /\ ApiIdle
  /\ UiIdle
  /\ EnhIdle
  /\ page \in {"dashboard", "enhanced"}
  /\ srvTasks = {Task(i, InitStatus(i), 0, IF InitStatus(i) = "completed" THEN 1 ELSE 0) : i \in TaskIds}
  /\ srvProjects = {Project(1, FALSE)}
  /\ cache = [k \in Keys |-> Undefined]
  /\ fetch = [k \in Keys |-> IF k \in ObservedKeys(page) THEN Pending ELSE Idle]
  /\ muts = {}
  /\ events = {}
  /\ nMut = 0
  /\ nExt = 0
  /\ last = NoLast

\* The backend answers the fetch that the mounted view's query started.
ShapeFetchServe(k) ==
  /\ fetch[k].st = "pending"
  /\ fetch' = [fetch EXCEPT ![k] = [st |-> "served",
                                    resp |-> QueryFnOf(page, k, srvTasks, srvProjects)]]
  /\ last' = NoLast
  /\ UNCHANGED <<page, srvTasks, srvProjects, cache, muts, events, nMut, nExt>>
  /\ UNCHANGED utilVars
  /\ UNCHANGED enhVars
  /\ UNCHANGED apiVars
  /\ UNCHANGED uiVars

\* The user navigates: the new route's queries mount and fetch, the cache
\* keeps what the former route's queries stored.
ShapeMount(pg) ==
  /\ pg \in ShapePages
  /\ pg # page
  /\ \A k \in Keys : fetch[k] = Idle
  /\ page' = pg
  /\ fetch' = [k \in Keys |-> IF k \in ObservedKeys(pg) THEN Pending ELSE fetch[k]]
  /\ last' = [NoLast EXCEPT !.op = "mount", !.kind = pg, !.before = cache]
  /\ UNCHANGED <<srvTasks, srvProjects, cache, muts, events, nMut, nExt>>
  /\ UNCHANGED utilVars
  /\ UNCHANGED enhVars
  /\ UNCHANGED apiVars
  /\ UNCHANGED uiVars

ShapeNext ==
  \/ \E k \in Keys : ShapeFetchServe(k)
  \/ \E k \in Keys : FetchReturn(k)
  \/ \E pg \in ShapePages : ShapeMount(pg)
  \/ \E e \in EventInputs : Broadcast(e)
  \/ \E e \in events : handleTaskCreated(e)
  \/ \E e \in events : handleTaskUpdated(e)
  \/ \E e \in events : handleTaskCompleted(e)
  \/ \E e \in events : handleProjectCreated(e)
  \/ \E e \in events : handleProjectUpdated(e)
  \/ \E e \in events : handleProjectDeleted(e)
  \/ \E e \in events : DashboardProjectEvent(e)
  \/ \E e \in events : Unheard(e)

SpecShape == ShapeInit /\ [][ShapeNext]_vars

(***************************************************************************)
(* SpecUrgency: the task utilities isTaskOverdue, getDaysUntilDue and      *)
(* getTaskUrgencyScore                                                     *)
(***************************************************************************)

\* The due dates lie between MaxOverdue days before and MaxDueDay days after
\* today.
MaxOverdue == 2
MaxDueDay == 9

\* 1000 * 60 * 60 * 24 milliseconds, in hours
HoursPerDay == 24

\* task.due_date = 'YYYY-MM-DD' of the day that lies d days after today
DueOn(d) == [has |-> TRUE, day |-> d]

DueDateInputs == {NoDueDate} \cup {DueOn(d) : d \in (0 - MaxOverdue)..MaxDueDay}

\* Offsets of the browser's local time from UTC, in hours.
TimezoneInputs == {0 - 5, 0, 2}

\* The result null of getDaysUntilDue, and a number.
Null == [null |-> TRUE, n |-> 0]
Num(n) == [null |-> FALSE, n |-> n]

\* dueDate.getTime() - today.getTime(), in hours: new Date('YYYY-MM-DD') is
\* midnight UTC of that day, which is tz hours after the local midnight of
\* the day, and today.setHours(0, 0, 0, 0) is the local midnight of today.
DiffTime(due, tz) == HoursPerDay * due.day + tz

\* Math.ceil(n / d)
Ceil(n, d) == 0 - ((0 - n) \div d)

isTaskOverdue(due, tz, status) ==
  IF ~due.has THEN FALSE ELSE DiffTime(due, tz) < 0 /\ status # "completed"

getDaysUntilDue(due, tz) ==
  IF ~due.has THEN Null ELSE Num(Ceil(DiffTime(due, tz), HoursPerDay))

getTaskUrgencyScore(p, due, tz) ==
  LET priorityWeight == getPriorityWeight(p) * 10
      daysUntil == getDaysUntilDue(due, tz)
  IN IF daysUntil.null THEN priorityWeight
     ELSE priorityWeight +
          (IF daysUntil.n < 0 THEN 50
           ELSE IF daysUntil.n <= 1 THEN 30
           ELSE IF daysUntil.n <= 3 THEN 20
           ELSE IF daysUntil.n <= 7 THEN 10
           ELSE 5)

\* A task (status, priority, due date) in a browser of some time zone.
UrgencyInit ==
  /\ fromStatus \in Statuses
  /\ toStatus = "pending"
  /\ priority \in {StrP(s) : s \in Priorities \cup {"critical"}}
  /\ ret = NoRet
  /\ dueDate \in DueDateInputs
  /\ timezone \in TimezoneInputs
  /\ modal = ModalClosed
  /\ HookIdle
  /\ EnhIdle
  /\ ApiIdle

CallIsTaskOverdue ==
  /\ ret' = [NoRet EXCEPT !.fn = "isTaskOverdue",
                          !.bool = isTaskOverdue(dueDate, timezone, fromStatus)]
  /\ UNCHANGED <<fromStatus, toStatus, priority>>
  /\ UNCHANGED hookVars
  /\ UNCHANGED enhVars
  /\ UNCHANGED apiVars
  /\ UNCHANGED uiVars

CallGetDaysUntilDue ==
  /\ ret' = [NoRet EXCEPT !.fn = "getDaysUntilDue",
                          !.bool = getDaysUntilDue(dueDate, timezone).null,
                          !.num = getDaysUntilDue(dueDate, timezone).n]
  /\ UNCHANGED <<fromStatus, toStatus, priority>>
  /\ UNCHANGED hookVars
  /\ UNCHANGED enhVars
  /\ UNCHANGED apiVars
  /\ UNCHANGED uiVars

CallGetTaskUrgencyScore ==
  /\ ret' = [NoRet EXCEPT !.fn = "getTaskUrgencyScore",
                          !.num = getTaskUrgencyScore(priority.s, dueDate, timezone)]
  /\ UNCHANGED <<fromStatus, toStatus, priority>>
  /\ UNCHANGED hookVars
  /\ UNCHANGED enhVars
  /\ UNCHANGED apiVars
  /\ UNCHANGED uiVars

UrgencyNext ==
  \/ CallIsTaskOverdue
  \/ CallGetDaysUntilDue
  \/ CallGetTaskUrgencyScore

SpecUrgency == UrgencyInit /\ [][UrgencyNext]_vars

(***************************************************************************)
(* SpecModal: SimpleTaskModal, its form and the calls it issues            *)
(***************************************************************************)

\* Bounds: the number of form edits and of submissions in one behaviour,
\* and the latest day that the date input is set to.
MaxChanges == 3
MaxSubmits == 2
MaxFormDay == 2

\* The tasks that the modal is opened for: one with every optional field
\* set and one with none.
FullTask ==
  [id |-> 1, name |-> StrP("task"), description |-> StrP("text"),
   status |-> StrP("in_progress"), priority |-> StrP("high"), project_id |-> NumP(1),
   assigned_to |-> NumP(1), due_date |-> DateP(MaxFormDay), estimated_time |-> NumP(3)]

BareTask ==
  [id |-> 2, name |-> StrP("task"), description |-> NullP,
   status |-> StrP("pending"), priority |-> StrP("medium"), project_id |-> NullP,
   assigned_to |-> NullP, due_date |-> NullP, estimated_time |-> NullP]

DatedTask == [BareTask EXCEPT !.id = 3, !.due_date = DateP(1)]

ModalTasks == {FullTask, BareTask, DatedTask}

\* v || d
OrElse(v, d) == IF Truthy(v) THEN v ELSE d

\* The effect on [task, mode]: the form of an edited or viewed task, and the
\* empty form for create.
InitialForm(task, mode) ==
  IF task # NullP /\ mode \in {"edit", "view"}
  THEN [name |-> task.name,
        description |-> OrElse(task.description, StrP("")),
        status |-> task.status,
        priority |-> task.priority,
        project_id |-> OrElse(task.project_id, NullP),
        assigned_to |-> OrElse(task.assigned_to, NullP),
        due_date |-> OrElse(task.due_date, StrP("")),
        estimated_time |-> OrElse(task.estimated_time, NullP)]
  ELSE EmptyForm

\* canEditAllFields
canEditAllFields(r, mode) == r = "admin" \/ r = "manager" \/ mode = "create"

\* The inputs that the form renders enabled.
EditableFields(r, mode) ==
  IF mode = "view" THEN {}
  ELSE IF canEditAllFields(r, mode)
       THEN {"name", "description", "status", "priority", "project_id", "assigned_to",
             "due_date", "estimated_time"}
       ELSE {"status", "estimated_time"}

\* e.target.value of a change event of the input
ChangeInputs(field) ==
  CASE field = "name"           -> {StrP(""), StrP(" "), StrP("renamed")}
    [] field = "description"    -> {StrP(""), StrP("edited")}
    [] field = "status"         -> {StrP(st) : st \in Statuses}
    [] field = "priority"       -> {StrP(p) : p \in Priorities}
    [] field = "project_id"     -> {StrP(""), NumStr(1), NumStr(2)}
    [] field = "assigned_to"    -> {StrP(""), NumStr(1)}
    [] field = "due_date"       -> {StrP("")} \cup {DateP(d) : d \in (0 - 1)..MaxFormDay}
    [] field = "estimated_time" -> {StrP(""), NumStr(5)}

\* value ? parseInt(value) : null, and the same with parseFloat
ParseNumber(value) == IF Truthy(value) THEN NumP(value.n) ELSE NullP

\* The value that handleChange stores for the field.
ChangedValue(field, value) ==
  IF field \in {"project_id", "assigned_to", "estimated_time"} THEN ParseNumber(value)
  ELSE value

\* formData.name.trim()
Trim(v) == IF v.s = " " THEN StrP("") ELSE v

\* new Date(formData.due_date) <= today: the date string is midnight UTC of
\* its day, today is the local midnight.
NotAfterToday(due, tz) == HoursPerDay * due.n + tz <= 0

\* newErrors of handleSubmit
Validate(form, tz) ==
  [name |-> IF ~Truthy(Trim(form.name)) THEN "Task name is required" ELSE "",
   due_date |-> IF ~Truthy(form.due_date) THEN "Due date is required"
                ELSE IF NotAfterToday(form.due_date, tz)
                     THEN "Due date must be in the future"
                     ELSE "",
   general |-> ""]

\* allowedUpdates.estimated_time?.toString()
OptToString(v) == IF v.t = "number" THEN NumStr(v.n) ELSE UndefP

\* taskData of createTaskMutation, as ApiService.createTask posts it
CreateBody(form) ==
  [form EXCEPT !.project_id = OrElse(form.project_id, NumP(0)),
               !.assigned_to = OrElse(form.assigned_to, UndefP),
               !.estimated_time = OptToString(form.estimated_time),
               !.priority = NormalizedTaskPriority(form.priority)]

\* allowedUpdates of handleSubmit
AllowedUpdates(r, task, form) ==
  IF r = "member"
  THEN [form EXCEPT !.name = task.name,
                    !.description = OrElse(task.description, StrP("")),
                    !.priority = task.priority,
                    !.project_id = task.project_id,
                    !.assigned_to = OrElse(task.assigned_to, NullP),
                    !.due_date = OrElse(task.due_date, StrP(""))]
  ELSE [form EXCEPT !.project_id = OrElse(form.project_id, NullP)]

\* updates of updateTaskMutation, as ApiService.updateTask puts them
UpdateBody(r, task, form) ==
  LET allowed == AllowedUpdates(r, task, form)
  IN [allowed EXCEPT !.assigned_to = OrElse(allowed.assigned_to, UndefP),
                     !.estimated_time = OptToString(allowed.estimated_time),
                     !.priority = NormalizedTaskPriority(allowed.priority)]

\* The parent opens the modal for a task, or for a new one.
ModalInit ==
  /\ UtilIdle
  /\ HookIdle
  /\ ApiIdle
  /\ optimisticUpdates = <<>>
  /\ taskToDelete = 0
  /\ now = 0
  /\ sweepDue = FALSE
  /\ role \in EnhRoles
  /\ dueDate = NoDueDate
  /\ timezone \in TimezoneInputs
  /\ \E mode \in {"create", "edit", "view"}, task \in ModalTasks :
       modal = [ModalClosed EXCEPT !.mode = mode,
                                   !.task = IF mode = "create" THEN NullP ELSE task,
                                   !.formData = InitialForm(task, mode)]

\* The frame of the modal's actions.
ModalFrame ==
  /\ UNCHANGED utilVars
  /\ UNCHANGED hookVars
  /\ UNCHANGED enhVars
  /\ UNCHANGED apiVars
  /\ UNCHANGED <<dueDate, timezone>>

\* handleChange
handleChange(field, value) ==
  /\ modal.mode # "closed"
  /\ modal.changes < MaxChanges
  /\ field \in EditableFields(role, modal.mode)
  /\ value \in ChangeInputs(field)
  /\ modal' = [modal EXCEPT !.formData[field] = ChangedValue(field, value),
                            !.changes = @ + 1]
  /\ ModalFrame

\* handleSubmit (the submit button is rendered unless the mode is view, and
\* is disabled while a mutation is pending)
handleSubmit ==
  /\ modal.mode \in {"create", "edit"}
  /\ modal.pending = 0
  /\ modal.submits < MaxSubmits
  /\ LET newErrors == Validate(modal.formData, timezone)
     IN IF newErrors # NoErrors
        THEN modal' = [modal EXCEPT !.errors = newErrors, !.submits = @ + 1]
        ELSE modal' =
               [modal EXCEPT
                  !.errors = NoErrors,
                  !.submits = @ + 1,
                  !.pending = @ + 1,
                  !.calls = Append(@,
                     IF modal.mode = "create"
                     THEN [fn |-> "createTask", id |-> 0, body |-> CreateBody(modal.formData)]
                     ELSE [fn |-> "updateTask", id |-> modal.task.id,
                           body |-> UpdateBody(role, modal.task, modal.formData)])]
  /\ ModalFrame

\* onSuccess: onSave() makes the parent close the modal.
ModalOnSuccess ==
  /\ modal.pending > 0
  /\ modal' = [modal EXCEPT !.mode = "closed", !.pending = @ - 1]
  /\ ModalFrame

\* onError: the error is shown and the form stays open.
ModalOnError ==
  /\ modal.pending > 0
  /\ modal' = [modal EXCEPT !.errors = [NoErrors EXCEPT !.general = "Failed"],
                            !.pending = @ - 1]
  /\ ModalFrame

ModalNext ==
  \/ \E field \in DOMAIN EmptyForm : \E value \in ChangeInputs(field) : handleChange(field, value)
  \/ handleSubmit
  \/ ModalOnSuccess
  \/ ModalOnError

SpecModal == ModalInit /\ [][ModalNext]_vars

(***************************************************************************)
(* SpecApi: the API client's interceptors and the auth context             *)
(***************************************************************************)

\* localStorage.getItem('auth_token') === null
NoToken == 0

\* The backend issues the tokens 1..MaxTokens.
MaxTokens == 2

\* Bound on the number of requests issued in one behaviour.
MaxRequests == 3

\* What comes back for a request: an HTTP status, or no response at all.
ResponseStatuses == {"200", "401", "403", "500", "network"}

\* The header Authorization: `Bearer ${token}`, and its absence.
Bearer(t) == [present |-> TRUE, bearer |-> t]
NoAuthorization == [present |-> FALSE, bearer |-> NoToken]

\* The error that axios hands to the response interceptor.
AxiosError(id, status) == [request |-> id, status |-> status]
NoError == [request |-> 0, status |-> "none"]

RequestInterceptor_Always(tok) == Bearer(tok)

\* The request interceptor: config.headers.Authorization for the token that
\* storage holds.
RequestInterceptor(tok) == IF tok # NoToken THEN Bearer(tok) ELSE NoAuthorization

\* A request as it leaves the client. storedToken is what storage held when
\* it was sent.
Request(id, endpoint, tok) ==
  [id |-> id, endpoint |-> endpoint, authorization |-> RequestInterceptor(tok),
   storedToken |-> tok, st |-> "sent", data |-> NoToken, error |-> NoError]

TokenAfterError_Always(tok, status) == NoToken

\* The response interceptor's error handler: the token in storage after it.
TokenAfterError(tok, status) == IF status = "401" THEN NoToken ELSE tok

\* The response interceptor's error handler: window.location after it.
LocationAfterError(loc, status) == IF status = "401" THEN "/login" ELSE loc

BootLoading_Always(tok) == TRUE

\* isLoading after the mount effect of AuthProvider: true while loadUser
\* runs, which it does when storage holds a token.
BootLoading(tok) == tok # NoToken

\* The header that the module of the Echo instance computes when the
\* document loads it: the template string over what storage holds then,
\* 'Bearer null' without a token.
EchoAuthorization(tok) == Bearer(tok)

\* The document has loaded: the Echo instance is constructed, AuthProvider
\* mounts and its effect loads the profile when storage holds a token.
ApiInit ==
  /\ UtilIdle
  /\ HookIdle
  /\ EnhIdle
  /\ UiIdle
  /\ token \in {NoToken, 1}
  /\ location = "/app"
  /\ user = 0
  /\ isLoading = BootLoading(token)
  /\ requests = IF token # NoToken THEN {Request(1, "me", token)} ELSE {}
  /\ nReq = IF token # NoToken THEN 1 ELSE 0
  /\ echoAuth = EchoAuthorization(token)

\* The frame of every action of the API client.
ApiFrame ==
  /\ UNCHANGED utilVars
  /\ UNCHANGED <<page, srvTasks, srvProjects, cache, fetch, muts, events, nMut, nExt>>
  /\ UNCHANGED enhVars
  /\ UNCHANGED uiVars

\* this.client.post / get: the request interceptor runs and the request leaves.
Send(endpoint) ==
  /\ nReq < MaxRequests
  /\ nReq' = nReq + 1
  /\ requests' = requests \cup {Request(nReq + 1, endpoint, token)}
  /\ last' = [NoLast EXCEPT !.op = "request", !.kind = endpoint, !.id = nReq + 1]
  /\ UNCHANGED <<token, location, user, isLoading, echoAuth>>
  /\ ApiFrame

\* AuthProvider.login: apiService.login(credentials), from the login screen
login ==
  /\ user = 0 \/ location = "/login"
  /\ Send("login")

\* AuthProvider.logout: apiService.logout()
logout ==
  /\ user # 0
  /\ Send("logout")

\* A view's query: apiService.getTasks(...)
getTasks ==
  /\ ~isLoading
  /\ Send("tasks")

\* The user reloads the document: the requests of the old document are
\* dropped, AuthProvider mounts and loads the profile when storage holds a
\* token.
Reload ==
  /\ nReq < MaxRequests
  /\ user' = 0
  /\ isLoading' = BootLoading(token)
  /\ requests' = IF token # NoToken THEN {Request(nReq + 1, "me", token)} ELSE {}
  /\ nReq' = nReq + 1
  /\ echoAuth' = EchoAuthorization(token)
  /\ last' = [NoLast EXCEPT !.op = "reload"]
  /\ UNCHANGED <<token, location>>
  /\ ApiFrame

\* A link of the layout: a signed-in user leaves the login screen.
OpenApp ==
  /\ user # 0
  /\ location = "/login"
  /\ location' = "/app"
  /\ last' = NoLast
  /\ UNCHANGED <<token, user, isLoading, requests, nReq, echoAuth>>
  /\ ApiFrame

\* A response arrives and passes the response interceptor: a 2xx response is
\* handed on; an error takes the 401 branch when its status is 401 and is
\* rejected to the caller.  A login response carries the token t.
Respond(r, status, t) ==
  /\ r \in requests
  /\ r.st = "sent"
  /\ IF status = "200"
     THEN /\ requests' = (requests \ {r}) \cup {[r EXCEPT !.st = "resolved", !.data = t]}
          /\ UNCHANGED <<token, location>>
     ELSE /\ requests' = (requests \ {r}) \cup
                           {[r EXCEPT !.st = "rejected", !.error = AxiosError(r.id, status)]}
          /\ token' = TokenAfterError(token, status)
          /\ location' = LocationAfterError(location, status)
  /\ last' = [NoLast EXCEPT !.op = "response", !.kind = status, !.id = r.id,
                            !.key = r.endpoint,
                            !.patch = AxiosError(r.id, status),
                            !.before = [token |-> token, location |-> location]]
  /\ UNCHANGED <<user, isLoading, nReq, echoAuth>>
  /\ ApiFrame

Thrown_Swallow(r) == NoError

\* The error that the caller of the AuthProvider function or of the query
\* sees: loadUser and logout catch the rejection, login and a query let it
\* pass.
Thrown(r) ==
  IF r.st = "rejected" /\ r.endpoint \notin {"logout", "me"} THEN r.error ELSE NoError

\* The caller resumes after its await: login stores the token and the user;
\* logout clears both whatever the outcome; loadUser sets the user, or
\* removes the token when the profile request failed; a query does nothing
\* to the session.
Resume(r) ==
  /\ r \in requests
  /\ r.st \in {"resolved", "rejected"}
  /\ requests' = requests \ {r}
  /\ CASE r.endpoint = "login" /\ r.st = "resolved" ->
            token' = r.data /\ user' = UserId /\ UNCHANGED isLoading
       [] r.endpoint = "logout" ->
            token' = NoToken /\ user' = 0 /\ UNCHANGED isLoading
       [] r.endpoint = "me" /\ r.st = "resolved" ->
            user' = UserId /\ isLoading' = FALSE /\ UNCHANGED token
       [] r.endpoint = "me" /\ r.st = "rejected" ->
            token' = NoToken /\ isLoading' = FALSE /\ UNCHANGED user
       [] OTHER -> UNCHANGED <<token, user, isLoading>>
  /\ last' = [NoLast EXCEPT !.op = "resume", !.kind = r.endpoint, !.id = r.id,
                            !.to = r.st, !.patch = Thrown(r),
                            !.before = [token |-> token, user |-> user]]
  /\ UNCHANGED <<location, nReq, echoAuth>>
  /\ ApiFrame

ApiNext ==
  \/ login
  \/ logout
  \/ getTasks
  \/ Reload
  \/ OpenApp
  \/ \E r \in requests, status \in ResponseStatuses, t \in 1..MaxTokens : Respond(r, status, t)
  \/ \E r \in requests : Resume(r)

SpecApi == ApiInit /\ [][ApiNext]_vars

\* The header that the Echo instance presents to the authEndpoint for a
\* private channel: the one of its options, or one read from storage then.
PresentedAuthorization_Live(captured, tok) == EchoAuthorization(tok)

PresentedAuthorization(captured, tok) == captured

\* The effect of useDashboardRealtime / useProjectRealtime with a user:
\* echo.private('organization.<org_id>') authenticates the channel.
Subscribe ==
  /\ user # 0
  /\ location = "/app"
  /\ last' = [NoLast EXCEPT !.op = "subscribe", !.kind = "organization",
                            !.patch = PresentedAuthorization(echoAuth, token),
                            !.before = [token |-> token, user |-> user]]
  /\ UNCHANGED apiVars
  /\ ApiFrame

EchoNext ==
  \/ ApiNext
  \/ Subscribe

\* The API client and the auth context with the realtime subscriptions.
SpecEcho == ApiInit /\ [][EchoNext]_vars

\* The profile request of loadUser is answered, or fails.
ProfileSettles ==
  \E r \in requests, status \in ResponseStatuses, t \in 1..MaxTokens :
    r.endpoint = "me" /\ Respond(r, status, t)

\* The continuation of loadUser runs.
ProfileResumes == \E r \in requests : r.endpoint = "me" /\ Resume(r)

\* SpecApi with a profile request that settles and a continuation that runs.
SpecBoot == SpecApi /\ WF_vars(ProfileSettles) /\ WF_vars(ProfileResumes)

(***************************************************************************)
(* Claims about the realtime handlers                                      *)
(***************************************************************************)

\* A realtime handler has just written the cache for an event of these types.
JustHandled(kinds) == last.op = "event" /\ last.kind \in kinds

\* The entries of a cached collection (none for a value that has no list).
Entries(c) ==
  CASE c.shape \in {"page", "array"} -> c.data
    [] c.shape = "spread" /\ c.hasData -> c.data
    [] OTHER -> <<>>

\* The collection holds an entry with this id.
Holds(c, id) == \E i \in 1..Len(Entries(c)) : Entries(c)[i].id = id

\* No id occurs twice in the collection.
UniqueIds(c) ==
  \A i, j \in 1..Len(Entries(c)) : Entries(c)[i].id = Entries(c)[j].id => i = j

\* new is old with every entry of this id replaced in place by entity.
ReplacedIn(old, new, id, entity) ==
  /\ new.shape = old.shape
  /\ Len(new.data) = Len(old.data)
  /\ \A i \in 1..Len(old.data) :
       new.data[i] = IF old.data[i].id = id THEN entity ELSE old.data[i]

\* new is old with entity prepended.
PrependedIn(old, new, entity) ==
  /\ new.shape = old.shape
  /\ new.data = <<entity>> \o old.data

\* Every task collection is as before the handler but for the entries with
\* the event's id, which keep their place and their id.
TaskUpdateTouchesOnlyTheId ==
  JustHandled({"task.updated", "task.completed"}) =>
    \A k \in TaskKeys :
      /\ cache[k].shape = last.before[k].shape
      /\ Len(cache[k].data) = Len(last.before[k].data)
      /\ \A i \in 1..Len(cache[k].data) :
           IF last.before[k].data[i].id = last.id
           THEN cache[k].data[i].id = last.id
           ELSE cache[k].data[i] = last.before[k].data[i]

\* C12: after the handler of a task.updated or task.completed event, every
\* cached task collection, array-shaped or paginated, equals what it was
\* before with every entry of the event's id replaced by the event's task:
\* entries of other ids are unchanged, and a collection that does not hold
\* the id is unchanged.
C12_TaskUpdatedReplacesById ==
  JustHandled({"task.updated", "task.completed"}) =>
    \A k \in TaskKeys : ReplacedIn(last.before[k], cache[k], last.id, last.patch)

\* C13: after the handler of a task.created event, a task collection that
\* held the id has the entry overwritten in place, one that did not has the
\* task prepended, and no task collection holds an id twice.
C13_TaskCreatedNeverDuplicates ==
  JustHandled({"task.created"}) =>
    \A k \in TaskKeys :
      last.before[k].shape # "undefined" =>
        /\ UniqueIds(last.before[k]) => UniqueIds(cache[k])
        /\ IF Holds(last.before[k], last.id)
           THEN ReplacedIn(last.before[k], cache[k], last.id, last.patch)
           ELSE PrependedIn(last.before[k], cache[k], last.patch)

\* The effect that C14 describes, on one collection.
ProjectCreatedEffect(old, new) ==
  IF Holds(old, last.id)
  THEN ReplacedIn(old, new, last.id, last.patch) /\ (UniqueIds(old) => UniqueIds(new))
  ELSE PrependedIn(old, new, last.patch)

\* The paginated project collections do what C14 says.
ProjectCreatedOnPaginated ==
  JustHandled({"project.created"}) =>
    \A k \in ProjectKeys :
      last.before[k].shape = "page" => ProjectCreatedEffect(last.before[k], cache[k])

\* C14: after the handler of a project.created event, every cached project
\* collection that held the id has that entry overwritten in place (same
\* length, same positions, the id once), and every one that did not has the
\* project prepended exactly once.
C14_ProjectCreatedInPlaceOrOnce ==
  JustHandled({"project.created"}) =>
    \A k \in ProjectKeys :
      last.before[k].shape # "undefined" => ProjectCreatedEffect(last.before[k], cache[k])

\* The keys that the handler of an event of this type splices.
AffectedKeys(kind) ==
  IF kind \in {"task.created", "task.updated", "task.completed"} THEN TaskKeys ELSE ProjectKeys

\* C15: a realtime handler that has written the cached collections has, in
\* the same run, invalidated the affected keys: the queries of those keys
\* that the mounted route observes are refetching.
C15_SpliceIsFollowedByInvalidation ==
  last.op = "event" =>
    \A k \in AffectedKeys(last.kind) \cap ObservedKeys(page) : fetch[k] = Pending

\* C16: after the handler of a project.deleted event with the payload
\* { project }, no cached project collection holds the project's id and the
\* other entries are kept in their order.
C16_ProjectDeletedRemovesById ==
  (JustHandled({"project.deleted"}) /\ "project" \in DOMAIN last.patch) =>
    \A k \in ProjectKeys :
      last.before[k].shape = "page" =>
        /\ cache[k].shape = "page"
        /\ cache[k].data = SelectSeq(last.before[k].data, LAMBDA p : p.id # last.patch.project.id)

\* C17: after the handler of an updated event, every cached entry with the
\* event's id equals the event's entity, so that no field of the previous
\* entry survives, a second delivery changes nothing, and the event
\* delivered last wins.
C17_UpdatedIsFullOverwrite ==
  JustHandled({"task.updated", "project.updated"}) =>
    \A k \in AffectedKeys(last.kind) :
      \A i \in 1..Len(Entries(cache[k])) :
        Entries(cache[k])[i].id = last.id => Entries(cache[k])[i] = last.patch

\* The project handler overwrites: C17 holds for project.updated.
ProjectUpdatedIsFullOverwrite ==
  JustHandled({"project.updated"}) =>
    \A k \in ProjectKeys :
      \A i \in 1..Len(Entries(cache[k])) :
        Entries(cache[k])[i].id = last.id => Entries(cache[k])[i] = last.patch

(***************************************************************************)
(* Claims about the shapes of the cached values                            *)
(***************************************************************************)

\* The shape that the mounted view's render reads under ['projects']:
\* Dashboard takes the value for an array (projects.length,
\* projects.filter), EnhancedTaskList reads its data array.
ExpectedProjectsShape(pg) ==
  CASE pg = "dashboard" -> {"undefined", "array"}
    [] pg = "enhanced"  -> {"undefined", "page"}
    [] OTHER            -> {"undefined", "array", "page", "spread"}

ReadersFindTheirShape == cache[ProjRootKey].shape \in ExpectedProjectsShape(page)

\* No step replaces the value of a key by one of another shape.
ShapeIsKept(ks) ==
  \A k \in ks : cache[k].shape # "undefined" => cache'[k].shape = cache[k].shape

\* C29: every query key holds values of one shape for its whole lifetime,
\* and the value under ['projects'] is an array whenever Dashboard reads it
\* and has a data array whenever EnhancedTaskList reads it.
C29_OneShapePerKey == []ReadersFindTheirShape /\ [][ShapeIsKept(Keys)]_vars

\* What holds: every key other than ['projects'] keeps its shape.
OtherKeysKeepShape == [][ShapeIsKept(Keys \ {ProjRootKey})]_vars

\* Dashboard is mounted over the paginated object that EnhancedTaskList
\* stored under ['projects'].
DashboardReadsPaginated ==
  /\ page = "dashboard"
  /\ last.op = "mount"
  /\ cache[ProjRootKey].shape = "page"

\* EnhancedTaskList is mounted over the array that Dashboard stored.
EnhancedReadsArray ==
  /\ page = "enhanced"
  /\ last.op = "mount"
  /\ cache[ProjRootKey].shape = "array"

(***************************************************************************)
(* Claims about the task utilities                                         *)
(***************************************************************************)

\* The due-date weight that C26 gives to a due date.
DocumentedDueWeight(due) ==
  IF ~due.has THEN 0
  ELSE IF due.day < 0 THEN 50
  ELSE IF due.day <= 1 THEN 30
  ELSE IF due.day <= 3 THEN 20
  ELSE IF due.day <= 7 THEN 10
  ELSE 5

\* What C26 says of the results of the two functions.
UrgencyAsDocumented ==
  /\ ret.fn = "getTaskUrgencyScore" =>
       ret.num = 10 * getPriorityWeight(priority.s) + DocumentedDueWeight(dueDate)
  /\ (ret.fn = "isTaskOverdue" /\ fromStatus = "pending" /\ dueDate = DueOn(0 - 1)) => ret.bool

\* C26: the urgency score of a task is 10 times its priority weight plus
\* 50 when it is due before today, 30 when due at most 1 day from today,
\* 20 at most 3 days, 10 at most 7 days, 5 later, and nothing without a due
\* date; a pending task due yesterday is overdue, and scores 90 when it is
\* urgent.
C26_UrgencyScore == UrgencyAsDocumented

\* In a browser whose local time is UTC the score is as documented.
UrgencyInUTC == timezone = 0 => UrgencyAsDocumented

(***************************************************************************)
(* Claims about SimpleTaskModal                                            *)
(***************************************************************************)

\* A step of handleSubmit that issues a call.
Submits == Len(modal'.calls) = Len(modal.calls) + 1

\* The call issued by the step.
Submitted == modal'.calls[Len(modal'.calls)]

\* The value is sent as it is, a number possibly as its decimal string.
SameValue(sent, v) == sent = v \/ (v.t = "number" /\ sent = NumStr(v.n))

\* The fields that a member may not change.
ProtectedFields == {"name", "description", "priority", "project_id", "assigned_to", "due_date"}

\* C21: an edit submitted by a member sends name, description, priority,
\* project, assignee and due date with the task's values whatever the form
\* holds, and one submitted by an admin or manager sends the form's value
\* of every field.
C21_EditSubmission ==
  [][(Submits /\ modal.mode = "edit") =>
       IF role = "member"
       THEN \A f \in ProtectedFields : SameValue(Submitted.body[f], modal.task[f])
       ELSE \A f \in DOMAIN EmptyForm : SameValue(Submitted.body[f], modal.formData[f])]_vars

\* What holds of a member's edit: every protected field that the task has
\* a value for is sent with that value, an absent one as '' or not at all.
MemberSendsTaskValues ==
  [][(Submits /\ modal.mode = "edit" /\ role = "member") =>
       \A f \in ProtectedFields :
         IF Truthy(modal.task[f]) THEN SameValue(Submitted.body[f], modal.task[f])
         ELSE Submitted.body[f] \in {StrP(""), NullP, UndefP}]_vars

\* What holds of an admin's or manager's edit: every field that the form
\* has a value for is sent with it, and a cleared assignee or estimated
\* time is left out of the request.
ManagerSendsSetFormValues ==
  [][(Submits /\ modal.mode = "edit" /\ role # "member") =>
       \A f \in DOMAIN EmptyForm :
         IF Truthy(modal.formData[f]) THEN SameValue(Submitted.body[f], modal.formData[f])
         ELSE Submitted.body[f] = IF f \in {"assigned_to", "estimated_time"} THEN UndefP
                                  ELSE modal.formData[f]]_vars

\* A manager clears the assignee of an assigned task and the request does
\* not carry the field.
UnassignIsDropped ==
  /\ role = "manager"
  /\ modal.task = FullTask
  /\ modal.formData.assigned_to = NullP
  /\ modal.calls # <<>>
  /\ modal.calls[Len(modal.calls)].body.assigned_to = UndefP

\* A step of handleSubmit in create mode.
CreateSubmit == modal.mode = "create" /\ modal'.submits = modal.submits + 1

\* The name is empty.
NameFails == ~Truthy(Trim(modal.formData.name))

\* The due date is missing or is not a day after today.
DueDateFails == ~Truthy(modal.formData.due_date) \/ modal.formData.due_date.n <= 0

\* The outcome of a create submission by the failing fields.
CreateOutcome ==
  IF NameFails \/ DueDateFails
  THEN /\ modal'.calls = modal.calls
       /\ (modal'.errors.name # "") = NameFails
       /\ (modal'.errors.due_date # "") = DueDateFails
  ELSE /\ Submits
       /\ Submitted.fn = "createTask"
       /\ modal'.errors = NoErrors

\* C22: a create submission with an empty name or with a due date that is
\* missing or not in the future issues no call and gives one error for each
\* failing field, and a passing one issues exactly one create call.
C22_CreateValidation == [][CreateSubmit => CreateOutcome]_vars

\* The same where local time is UTC.
CreateValidationInUTC == [][(CreateSubmit /\ timezone = 0) => CreateOutcome]_vars

\* A failing submission never issues a call that the code's own comparison
\* rejects, and an empty name never passes.
EmptyNameNeverSent ==
  [][(CreateSubmit /\ NameFails) =>
       (modal'.calls = modal.calls /\ modal'.errors.name # "")]_vars

\* East of UTC a task due today has been created.
DueTodayCreated ==
  /\ timezone > 0
  /\ modal.calls # <<>>
  /\ modal.calls[Len(modal.calls)].fn = "createTask"
  /\ modal.calls[Len(modal.calls)].body.due_date = DateP(0)

\* An empty name with a past due date gave the two errors and no call.
TwoErrorsReached ==
  /\ modal.mode = "create"
  /\ modal.errors.name # ""
  /\ modal.errors.due_date = "Due date must be in the future"
  /\ modal.calls = <<>>

(***************************************************************************)
(* Claims about the realtime client's authentication                      *)
(***************************************************************************)

\* A private channel has just been authenticated.
JustSubscribed == last.op = "subscribe"

\* C30: the bearer token that the realtime client presents when it
\* authenticates a private channel is the token that storage holds at that
\* moment.
C30_ChannelAuthUsesStoredToken == JustSubscribed => last.patch = Bearer(token)

\* What holds: the header is the one computed when the document loaded, and
\* only a load of the document computes it again.
EchoHeaderIsFromLoad == [][echoAuth' # echoAuth => last'.op = "reload"]_vars

\* After a login in a document that was loaded without a token, the channel
\* is authenticated with 'Bearer null'.
NullTokenPresented ==
  /\ JustSubscribed
  /\ token # NoToken
  /\ last.patch = Bearer(NoToken)

\* After a logout and a login the channel is authenticated with the token
\* of the former session.
FormerTokenPresented ==
  /\ JustSubscribed
  /\ token # NoToken
  /\ last.patch.bearer \notin {NoToken, token}

(***************************************************************************)
(* Claims about the API client                                             *)
(***************************************************************************)

\* The response interceptor has just handled a failed response.
JustFailed == last.op = "response" /\ last.kind # "200"

\* C18: after the response interceptor has handled a failed response, the
\* request is rejected with the error that arrived; if the status was 401
\* the stored token is absent and the location is /login, and otherwise
\* the stored token and the location are what they were before.
C18_UnauthorizedClearsSession ==
  JustFailed =>
    /\ \E r \in requests : r.id = last.id /\ r.st = "rejected" /\ r.error = last.patch
    /\ IF last.kind = "401"
       THEN token = NoToken /\ location = "/login"
       ELSE token = last.before.token /\ location = last.before.location

\* A 401 has arrived in a signed-in session that was not on the login screen.
C18_Witness ==
  /\ JustFailed
  /\ last.kind = "401"
  /\ last.before.token # NoToken
  /\ last.before.location = "/app"
  /\ token = NoToken
  /\ location = "/login"

\* Another failure has arrived in a signed-in session and changed nothing.
OtherFailureReached ==
  /\ JustFailed
  /\ last.kind = "500"
  /\ token # NoToken
  /\ location = "/app"

\* C19: every request of the API client carries Authorization: Bearer
\* <token> for the token that storage held when it was sent, and no
\* Authorization header when storage held none.
C19_RequestCarriesStoredToken ==
  \A r \in requests :
    IF r.storedToken = NoToken
    THEN ~r.authorization.present
    ELSE r.authorization.present /\ r.authorization.bearer = r.storedToken

\* A request that carried the stored token was answered with 401, and the
\* request sent after it has left without the header.
C19_Witness ==
  /\ token = NoToken
  /\ \E r \in requests :
       r.st = "rejected" /\ r.error.status = "401" /\ r.authorization = Bearer(1)
  /\ \E r \in requests :
       r.st = "sent" /\ r.endpoint = "login" /\ ~r.authorization.present

\* A request sent after a login carries the token of that login.
NewTokenCarried ==
  \E r \in requests : r.endpoint = "tasks" /\ r.authorization = Bearer(2) /\ token = 2

\* A login request has just failed in the response interceptor.
LoginJustFailed == JustFailed /\ last.key = "login"

\* The continuation of a function of AuthProvider has just run.
JustResumed(endpoint, st) == last.op = "resume" /\ last.kind = endpoint /\ last.to = st

\* logout ends with the token removed and user null, however the call went.
LogoutClears ==
  \A st \in {"resolved", "rejected"} :
    JustResumed("logout", st) => token = NoToken /\ user = 0 /\ last.patch = NoError

\* login itself changes neither token nor user when the call failed, and
\* lets the error pass to its caller.
FailedLoginThrows ==
  JustResumed("login", "rejected") =>
    /\ token = last.before.token
    /\ user = last.before.user
    /\ last.patch = AxiosError(last.id, last.patch.status)
    /\ last.patch.status \in ResponseStatuses \ {"200"}

\* C27 as stated: logout always ends with the stored token removed and user
\* null; a failed login leaves the stored token and user as they were when
\* the response arrived, and the error reaches the caller.
C27_FailedLoginKeepsToken ==
  /\ LogoutClears
  /\ FailedLoginThrows
  /\ LoginJustFailed => token = last.before.token

\* C27 amended: logout always ends with the stored token removed and user
\* null; a failed login leaves user unchanged and the error reaches the
\* caller; the stored token is unchanged unless the response's status is
\* 401, in which case the response interceptor has removed it.
C27_FailedLoginKeepsTokenUnless401 ==
  /\ LogoutClears
  /\ FailedLoginThrows
  /\ LoginJustFailed =>
       token = IF last.kind = "401" THEN NoToken ELSE last.before.token

\* A login has failed with a status other than 401 while storage held a
\* token, and its caller has the error.
C27_Witness ==
  /\ JustResumed("login", "rejected")
  /\ last.patch.status = "500"
  /\ token # NoToken

\* A logout whose call failed has ended.
FailedLogoutReached ==
  JustResumed("logout", "rejected") /\ last.before.token # NoToken /\ last.before.user # 0

\* The continuation of loadUser has just run.
C28_BootSettled ==
  /\ JustResumed("me", "resolved") =>
       user = UserId /\ token = last.before.token /\ ~isLoading
  /\ JustResumed("me", "rejected") =>
       token = NoToken /\ user = last.before.user /\ ~isLoading

\* Without a stored token the context is not loading once it has mounted.
BootWithoutToken ==
  (((last.op = "none" /\ nReq = 0) \/ last.op = "reload") /\ token = NoToken) => ~isLoading

\* C28: after start-up isLoading becomes false: at once when no token is
\* stored, and otherwise when the profile request has settled; a failed
\* profile request removes the token and leaves user as it is, a
\* successful one sets user and keeps the token.
C28_BootstrapEnds ==
  /\ [](C28_BootSettled /\ BootWithoutToken)
  /\ (isLoading ~> ~isLoading)

\* The profile request of a start-up with a stored token has failed.
C28_Witness ==
  /\ JustResumed("me", "rejected")
  /\ last.before.token # NoToken
  /\ token = NoToken
  /\ user = 0
  /\ ~isLoading

\* The priority that a write is to send for a given priority of the task.
DocumentedPriority(p) ==
  CASE p.t = "string" /\ p.s \in Priorities -> p.s
    [] p = NumP(1) -> "urgent"
    [] p = NumP(2) -> "high"
    [] p = NumP(3) -> "medium"
    [] p = NumP(4) -> "low"
    [] OTHER       -> "medium"

\* C20: a create or update request for a task that has a priority sends one
\* of low, medium, high, urgent: a valid string unchanged, the numbers 1, 2,
\* 3, 4 as urgent, high, medium, low, and every other value as medium.
C20_WritesSendValidPriority ==
  (ret.fn \in {"createTask", "updateTask"} /\ priority # UndefP) =>
    ret.sent = StrP(DocumentedPriority(priority))

\* The same for the priorities that are truthy in JavaScript.
TruthyPrioritySentNormalized ==
  (ret.fn \in {"createTask", "updateTask"} /\ Truthy(priority)) =>
    ret.sent = StrP(DocumentedPriority(priority))

(***************************************************************************)
(* Claims about the render functions                                       *)
(***************************************************************************)

\* A view has just been rendered.
Rendered == last'.op = "render"

\* C24: rendering a view changes neither the contents nor the order of any
\* cached collection.
C24_RenderLeavesCache == [][Rendered => cache' = cache]_vars

\* The elements of a collection with their multiplicities.
Elements(d) == [x \in {d[i] : i \in 1..Len(d)} |-> Cardinality({i \in 1..Len(d) : d[i] = x})]

\* What holds: rendering changes no cached collection's elements, and only
\* the Dashboard's render changes an order, that of its own tasks array.
RenderKeepsElements ==
  [][Rendered =>
       /\ \A k \in Keys : /\ cache'[k].shape = cache[k].shape
                          /\ Elements(cache'[k].data) = Elements(cache[k].data)
       /\ \A k \in Keys \ {DashKey} : cache'[k] = cache[k]
       /\ page # "dashboard" => cache' = cache]_vars

\* The Dashboard's render has reordered its cached tasks.
DashboardReordered ==
  /\ last.op = "render"
  /\ last.key = DashKey
  /\ cache[DashKey] # last.before
  /\ cache[DashKey].data = SortRecent(last.before.data)

(***************************************************************************)
(* Claims about useTaskMutations and the optimistic project creation       *)
(***************************************************************************)

\* Whether a cached collection shows the effect of mutation m on its entity:
\* the entity carries every field of the patch, or, for a delete, is absent.
ShowsPatch(c, m) ==
  /\ HasData(c)
  /\ IF m.kind = "delete" THEN FindTask(c, m.id) = {}
     ELSE /\ FindTask(c, m.id) # {}
          /\ \A t \in FindTask(c, m.id) : \A f \in DOMAIN m.patch : t[f] = m.patch[f]

\* C2: a status update dispatched through updateTaskStatus whose target is
\* not a valid transition from the task's current status (the status the
\* task list shows) makes no network call, changes no cached collection and
\* reaches onError.
C2_InvalidTransitionRejected ==
  (/\ last.op = "dispatch"
   /\ last.kind = "status"
   /\ last.from \in Statuses
   /\ ~isValidStatusTransition(last.from, last.to))
    => (/\ ~last.network
        /\ last.onError
        /\ cache[HookKey] = last.before)

C4_InFlightPatchesSurviveRollback ==
  (last.op = "onError" /\ last.kind \in HookKinds)
    => \A m \in muts :
         m.kind \in HookKinds => (ShowsPatch(cache[HookKey], m) \/ ShowsPatch(cache[ListKey], m))

\* C5: while a task mutation of useTaskMutations is in flight, the matching
\* entity in the collection the task list reads shows the patch, and a
\* deleted entity is absent from it.
C5_PatchShownWhileInFlight ==
  \A m \in muts :
    (m.kind \in HookKinds /\ HasData(cache[ListKey]))
      => IF m.kind = "delete" THEN FindTask(cache[ListKey], m.id) = {}
         ELSE \A t \in FindTask(cache[ListKey], m.id) :
                \A f \in DOMAIN m.patch : t[f] = m.patch[f]

\* No mutation, no query function call and no realtime event is in flight.
Quiescent ==
  /\ muts = {}
  /\ events = {}
  /\ \A k \in Keys : fetch[k].st = "idle"

\* The collection holds exactly the backend's entities, each once.
SameEntities(data, S) ==
  /\ Len(data) = Cardinality(S)
  /\ {data[i] : i \in 1..Len(data)} = S

C23_NoAutomaticRetry ==
  [][/\ \A m \in muts' : m.calls = 1
     /\ \A m \in muts :
          \/ m \in muts'
          \/ [m EXCEPT !.applied = TRUE] \in muts'
          \/ /\ \A m2 \in muts' : m2.mid # m.mid
             /\ last'.op \in {"onSuccess", "onError"}
             /\ last'.op = "onError" => ~m.applied]_vars

\* The request of a status change failed, its onError has run and nothing
\* is in flight for the task.
C23_Witness ==
  /\ last.op = "onError"
  /\ last.kind = "status"
  /\ last.onError
  /\ \A m \in muts : m.id # last.id

(***************************************************************************)
(* Claims about EnhancedTaskList                                           *)
(***************************************************************************)

\* C7: every status that a client operation (status update, quick complete,
\* delete overlay) writes as an overlay or sends for a task is a legal
\* transition from the task's current cached status: isValidStatusTransition
\* accepts the pair (cached status, new status).
C7_ClientStatusesAreLegal ==
  (page = "enhanced" /\ last.op = "dispatch" /\ last.from \in Statuses)
    => isValidStatusTransition(last.from, last.to)

\* C8: the overlay list holds at most one overlay per task id, and right
\* after an overlay is applied for a task id the list holds exactly the new
\* overlay for that id (an older one is replaced) while the overlays of all
\* other ids are the ones the list held before, in the same order.
C8_OneOverlayPerId ==
  /\ \A i, j \in 1..Len(optimisticUpdates) :
       optimisticUpdates[i].id = optimisticUpdates[j].id => i = j
  /\ (page = "enhanced" /\ last.op = "dispatch" /\ last.from \in Statuses)
       => /\ Len(OverlaysOf(optimisticUpdates, last.id)) = 1
          /\ Head(OverlaysOf(optimisticUpdates, last.id)).newData = last.patch
          /\ Head(OverlaysOf(optimisticUpdates, last.id)).timestamp = now
          /\ SelectSeq(optimisticUpdates, LAMBDA u : u.id # last.id)
               = SelectSeq(last.before, LAMBDA u : u.id # last.id)

\* An overlay was applied for an id that already had a different overlay,
\* and the list holds the new one only.
C8_Witness ==
  /\ page = "enhanced"
  /\ last.op = "dispatch"
  /\ OverlaysOf(last.before, last.id) # <<>>
  /\ Head(OverlaysOf(last.before, last.id)).newData # last.patch
  /\ Len(optimisticUpdates) = 1
  /\ optimisticUpdates[1].newData = last.patch

\* The overlay u is the one that the mutationFn of mutation m wrote.
CreatedBy(m, u) == u.id = m.id /\ u.newData = m.patch /\ u.timestamp = m.at

\* C9: an overlay exists exactly while the mutation that created it is in
\* flight and less than 5 seconds old: every overlay in the list was written
\* by a mutation that has not settled yet, and a mutation in flight that wrote
\* an overlay less than 5 seconds ago still has that overlay in the list, also
\* when other mutations on the same task id are in flight.  (The second half
\* is stated for the mutation dispatched last, whose overlay no later
\* mutation can have replaced.)
C9_OverlayLifetime ==
  page = "enhanced" =>
    /\ \A i \in 1..Len(optimisticUpdates) :
         \E m \in muts : CreatedBy(m, optimisticUpdates[i])
    /\ \A m \in muts :
         (m.overlaid /\ m.mid = nMut /\ now - m.at < OverlayExpiry)
           => \E i \in 1..Len(optimisticUpdates) : CreatedBy(m, optimisticUpdates[i])

\* C10: right after the onSuccess of a status update, a complete or a delete
\* for a task id, the overlay list holds no overlay with that id and the task
\* queries are invalidated (the list's query is refetching).
C10_NoOverlayAfterSuccess ==
  (page = "enhanced" /\ last.op = "onSuccess")
    => /\ OverlaysOf(optimisticUpdates, last.id) = <<>>
       /\ fetch[EnhKey] = Pending

\* A mutation succeeded while its overlay was in the list, and the overlay
\* is gone.
C10_Witness ==
  /\ page = "enhanced"
  /\ last.op = "onSuccess"
  /\ \E i \in 1..Len(last.before) :
       last.before[i].id = last.id /\ last.before[i].newData = last.patch
  /\ OverlaysOf(optimisticUpdates, last.id) = <<>>
  /\ fetch[EnhKey] = Pending

(***************************************************************************)
(* C11                                                                     *)
(***************************************************************************)

\* The list holds an overlay for task id that was written at time t.
HasOverlay(id, t) ==
  \E i \in 1..Len(optimisticUpdates) :
    optimisticUpdates[i].id = id /\ optimisticUpdates[i].timestamp = t

\* Right after a run of the cleanup callback the list holds, in their order,
\* exactly the overlays it held before whose age is below 5 seconds.
SweepRemovesExactlyTheExpired ==
  last.op = "cleanup" =>
    /\ \A i \in 1..Len(optimisticUpdates) :
         now - optimisticUpdates[i].timestamp < OverlayExpiry
    /\ optimisticUpdates =
         SelectSeq(last.before, LAMBDA u : ~(now - u.timestamp >= OverlayExpiry))

\* Once the callback queued for the current second has run, no overlay of
\* age 5 seconds or more is left.
NoExpiredOverlayAfterSweep ==
  ~sweepDue =>
    \A i \in 1..Len(optimisticUpdates) :
      now - optimisticUpdates[i].timestamp < OverlayExpiry

\* C11: every overlay whose age is 5 seconds or more is removed by the next
\* run of the periodic sweep, whether or not a callback of its mutation has
\* run, and the sweep leaves every younger overlay unchanged; hence every
\* overlay is eventually removed (stated for the overlays whose expiry lies
\* within the clock's bound).
C11_SweepRemovesExpired ==
  /\ [](SweepRemovesExactlyTheExpired /\ NoExpiredOverlayAfterSweep)
  /\ \A id \in TaskIds, t \in 0..(MaxTime - OverlayExpiry) :
       [](HasOverlay(id, t) => <>(~HasOverlay(id, t)))

\* The sweep has just removed an overlay of age 5 seconds whose mutation is
\* still in flight.
C11_Witness ==
  /\ last.op = "cleanup"
  /\ \E i \in 1..Len(last.before) :
       /\ now - last.before[i].timestamp >= OverlayExpiry
       /\ \E m \in muts : CreatedBy(m, last.before[i])
       /\ ~HasOverlay(last.before[i].id, last.before[i].timestamp)

(***************************************************************************)
(* C1                                                                      *)
(***************************************************************************)

\* The fixed transition table of the status policy, as a relation.
TransitionTable ==
  [s \in Statuses |->
     CASE s = "pending"     -> {"in_progress", "completed", "cancelled"}
       [] s = "in_progress" -> {"completed", "cancelled"}
       [] s = "completed"   -> {"in_progress"}
       [] s = "cancelled"   -> {"pending"}]

\* C1: for every pair (from, to) of task statuses, isValidStatusTransition
\* returns true exactly when from = to or to is in the fixed table's entry
\* for from.
C1_TransitionMatchesTable ==
  (ret.fn = "isValidStatusTransition" /\ fromStatus \in Statuses /\ toStatus \in Statuses)
    => (ret.bool <=> (fromStatus = toStatus \/ toStatus \in TransitionTable[fromStatus]))

\* A rejected pair and an accepted pair of the table have been evaluated.
C1_Witness ==
  /\ ret.fn = "isValidStatusTransition"
  /\ fromStatus = "completed"
  /\ toStatus = "in_progress"
  /\ ret.bool = TRUE

(***************************************************************************)
(* Claims about SimpleTaskList                                             *)
(***************************************************************************)

\* C25: the status dropdown of every row of the simple task list offers the
\* row's status s followed by exactly the statuses of the transition
\* table's entry for s, and every status change that the list has
\* dispatched satisfies isValidStatusTransition(s, target) for the status s
\* that the row showed.
C25_DropdownOffersValidTransitions ==
  /\ \A i \in 1..Len(ListTasks) :
       LET s == ListTasks[i].status
           options == DropdownOptions(ListTasks[i])
       IN /\ options[1] = s
          /\ {options[j] : j \in 2..Len(options)} = TransitionTable[s]
          /\ Len(options) = 1 + Cardinality(TransitionTable[s])
  /\ (last.op = "dispatch" /\ last.kind = "status") =>
       /\ last.from \in Statuses
       /\ last.to \in TransitionTable[last.from]
       /\ isValidStatusTransition(last.from, last.to)
       /\ last.network

\* The list has dispatched the reopening of a completed task.
C25_Witness ==
  /\ last.op = "dispatch"
  /\ last.kind = "status"
  /\ last.from = "completed"
  /\ last.to = "in_progress"
  /\ last.network

====
